---------------------------- MODULE Spec2Model ----------------------------
(***************************************************************************)
(* A model of avto-dev/go-simple-fileserver: the request pipeline of       *)
(* FileServer.ServeHTTP (method check, index redirect, path resolution,    *)
(* cache lookup, disk read, cache admission), the in-memory TTL cache and  *)
(* the error handler chain.                                                *)
(*                                                                         *)
(* Strings are sequences of one-character strings, so that the string      *)
(* functions the code calls (strings.HasSuffix, path.Clean, path.Join,     *)
(* filepath.FromSlash, strings.ReplaceAll) are computed as the code        *)
(* computes them.                                                          *)
(***************************************************************************)
EXTENDS Integers, Sequences, FiniteSets, TLC

(***************************************************************************)
(* Bounds of the model.                                                    *)
(***************************************************************************)
\* longest request path the path-resolution specification enumerates
MaxPathLen == 5

(***************************************************************************)
(* String helpers (package strings).                                       *)
(***************************************************************************)
Min(a, b) == IF a < b THEN a ELSE b

HasPrefix(s, prefix) ==
    /\ Len(s) >= Len(prefix)
    /\ SubSeq(s, 1, Len(prefix)) = prefix

HasSuffix(s, suffix) ==
    /\ Len(s) >= Len(suffix)
    /\ SubSeq(s, Len(s) - Len(suffix) + 1, Len(s)) = suffix

\* index (1-based) of the first occurrence of sub in s at or after from; 0 if none
RECURSIVE IndexFrom(_, _, _)
IndexFrom(s, sub, from) ==
    IF from + Len(sub) - 1 > Len(s) THEN 0
    ELSE IF SubSeq(s, from, from + Len(sub) - 1) = sub THEN from
    ELSE IndexFrom(s, sub, from + 1)

Contains(s, sub) == IndexFrom(s, sub, 1) # 0

\* strings.ReplaceAll for a non-empty old: non-overlapping matches, left to right
RECURSIVE ReplaceAll(_, _, _)
ReplaceAll(s, old, new) ==
    LET i == IndexFrom(s, old, 1)
    IN  IF i = 0 THEN s
        ELSE SubSeq(s, 1, i - 1) \o new
             \o ReplaceAll(SubSeq(s, i + Len(old), Len(s)), old, new)

\* strconv.Itoa for a non-negative number
Digit(d) == <<"0", "1", "2", "3", "4", "5", "6", "7", "8", "9">>[d + 1]

RECURSIVE Itoa(_)
Itoa(n) == IF n < 10 THEN <<Digit(n)>> ELSE Itoa(n \div 10) \o <<Digit(n % 10)>>

(***************************************************************************)
(* package path: Clean and Join.                                           *)
(***************************************************************************)
\* the ".." case of Clean: drop the last element of out, never below dotdot
RECURSIVE Backtrack(_, _, _)
Backtrack(out, w, dotdot) ==
    IF w > dotdot /\ out[w + 1] # "/" THEN Backtrack(out, w - 1, dotdot)
    ELSE SubSeq(out, 1, w)

\* end (0-based, exclusive) of the path element that starts at r
RECURSIVE ElemEnd(_, _)
ElemEnd(p, r) == IF r < Len(p) /\ p[r + 1] # "/" THEN ElemEnd(p, r + 1) ELSE r

\* the loop of path.Clean; r and dotdot are 0-based as in the source
RECURSIVE CleanLoop(_, _, _, _)
CleanLoop(p, r, out, dotdot) ==
    LET n == Len(p)
        rooted == p[1] = "/"
    IN  IF r >= n THEN out
        ELSE IF p[r + 1] = "/" THEN CleanLoop(p, r + 1, out, dotdot)
        ELSE IF p[r + 1] = "." /\ (r + 1 = n \/ p[r + 2] = "/")
             THEN CleanLoop(p, r + 1, out, dotdot)
        ELSE IF p[r + 1] = "." /\ p[r + 2] = "." /\ (r + 2 = n \/ p[r + 3] = "/")
             THEN IF Len(out) > dotdot
                  THEN CleanLoop(p, r + 2, Backtrack(out, Len(out) - 1, dotdot), dotdot)
                  ELSE IF ~rooted
                  THEN LET o2 == (IF Len(out) > 0 THEN Append(out, "/") ELSE out)
                                 \o <<".", ".">>
                       IN  CleanLoop(p, r + 2, o2, Len(o2))
                  ELSE CleanLoop(p, r + 2, out, dotdot)
        ELSE LET o1 == IF (rooted /\ Len(out) # 1) \/ (~rooted /\ Len(out) # 0)
                       THEN Append(out, "/") ELSE out
                 e  == ElemEnd(p, r)
             IN  CleanLoop(p, e, o1 \o SubSeq(p, r + 1, e), dotdot)

Clean(p) ==
    IF p = <<>> THEN <<".">>
    ELSE LET out == IF p[1] = "/" THEN CleanLoop(p, 1, <<"/">>, 1)
                    ELSE CleanLoop(p, 0, <<>>, 0)
         IN  IF out = <<>> THEN <<".">> ELSE out

\* path.Join of two elements
Join(a, b) ==
    IF Len(a) + Len(b) = 0 THEN <<>>
    ELSE IF a = <<>> THEN Clean(b)
    ELSE Clean(a \o <<"/">> \o b)

(***************************************************************************)
(* package path/filepath: FromSlash and Base, for the separator of the     *)
(* platform the server is built for.                                       *)
(***************************************************************************)
Separators == {"/", "\\"}

FromSlash(p, sep) ==
    IF sep = "/" THEN p
    ELSE [k \in 1..Len(p) |-> IF p[k] = "/" THEN sep ELSE p[k]]


\* the name of a path looked up by the operating system: its elements, with
\* "." dropped and ".." resolved; sep is an element separator beside "/" on
\* a platform whose separator is not "/"
IsSep(c, sep) == c = "/" \/ c = sep

RECURSIVE OSElems(_, _, _, _)
OSElems(p, sep, k, acc) ==
    \* acc = <<finished elements, current element>>
    IF k > Len(p) THEN (IF acc[2] = <<>> THEN acc[1] ELSE Append(acc[1], acc[2]))
    ELSE IF IsSep(p[k], sep)
         THEN OSElems(p, sep, k + 1,
                      <<IF acc[2] = <<>> THEN acc[1] ELSE Append(acc[1], acc[2]), <<>>>>)
         ELSE OSElems(p, sep, k + 1, <<acc[1], Append(acc[2], p[k])>>)

RECURSIVE OSWalk(_, _, _, _)
OSWalk(elems, k, out, abs) ==
    IF k > Len(elems) THEN out
    ELSE IF elems[k] = <<".">> THEN OSWalk(elems, k + 1, out, abs)
    ELSE IF elems[k] = <<".", ".">>
         THEN IF out # <<>> /\ out[Len(out)] # <<".", ".">>
              THEN OSWalk(elems, k + 1, SubSeq(out, 1, Len(out) - 1), abs)
              ELSE IF abs THEN OSWalk(elems, k + 1, out, abs)
              ELSE OSWalk(elems, k + 1, Append(out, elems[k]), abs)
         ELSE OSWalk(elems, k + 1, Append(out, elems[k]), abs)

\* p starts at the root of the file system
IsAbs(p, sep) == p # <<>> /\ IsSep(p[1], sep)

\* the directory entries the operating system walks for path p
OSName(p, sep) ==
    OSWalk(OSElems(p, sep, 1, <<<<>>, <<>>>>), 1, <<>>, IsAbs(p, sep))

\* the file named by p lies in the directory named by root, or is that directory
Within(p, root, sep) ==
    LET pn == OSName(p, sep)
        rn == OSName(root, sep)
    IN  /\ IsAbs(p, sep) = IsAbs(root, sep)
        /\ Len(pn) >= Len(rn)
        /\ SubSeq(pn, 1, Len(rn)) = rn

(***************************************************************************)
(* Constants of src/fileserver.go and the standard reason phrases.         *)
(***************************************************************************)
defaultFallbackErrorContent ==
    <<"<", "h", "t", "m", "l", ">", "<", "b", "o", "d", "y", ">", "<", "h",
      "1", ">", "E", "r", "r", "o", "r", " ", "{", "{", " ", "c", "o", "d",
      "e", " ", "}", "}", "<", "/", "h", "1", ">", "<", "h", "2", ">", "{",
      "{", " ", "m", "e", "s", "s", "a", "g", "e", " ", "}", "}", "<", "/",
      "h", "2", ">", "<", "/", "b", "o", "d", "y", ">", "<", "/", "h", "t",
      "m", "l", ">">>

defaultIndexFileName == <<"i", "n", "d", "e", "x", ".", "h", "t", "m", "l">>

\* time.Second * 5, counted in seconds
defaultCacheTTL == 5

defaultCacheMaxFileSize == 1024 * 64

defaultCacheMaxItems == 64

StatusOK == 200
StatusMovedPermanently == 301
StatusNotFound == 404
StatusMethodNotAllowed == 405
StatusInternalServerError == 500

\* http.StatusText: the empty string for a code without a reason phrase
StatusText(c) ==
    IF c = 404 THEN <<"N", "o", "t", " ", "F", "o", "u", "n", "d">>
    ELSE IF c = 405
         THEN <<"M", "e", "t", "h", "o", "d", " ", "N", "o", "t", " ", "A", "l",
                "l", "o", "w", "e", "d">>
    ELSE IF c = 500
         THEN <<"I", "n", "t", "e", "r", "n", "a", "l", " ", "S", "e", "r", "v",
                "e", "r", " ", "E", "r", "r", "o", "r">>
    ELSE IF c = 200 THEN <<"O", "K">>
    ELSE <<>>

(***************************************************************************)
(* src/errors.go: ErrorPageTemplate.Build.  The source ranges over a Go    *)
(* map, so the two patterns are replaced in either order.                  *)
(***************************************************************************)
PatternCode == <<"{", "{", " ", "c", "o", "d", "e", " ", "}", "}">>
PatternMessage ==
    <<"{", "{", " ", "m", "e", "s", "s", "a", "g", "e", " ", "}", "}">>

BuildOrders == {"code-first", "message-first"}

Build(t, errorCode, order) ==
    IF order = "code-first"
    THEN ReplaceAll(ReplaceAll(t, PatternCode, Itoa(errorCode)),
                    PatternMessage, StatusText(errorCode))
    ELSE ReplaceAll(ReplaceAll(t, PatternMessage, StatusText(errorCode)),
                    PatternCode, Itoa(errorCode))

\* the body json.Encoder writes for jsonError{Code, Message}
JSONBody(errorCode) ==
    <<"{", "\"", "c", "o", "d", "e", "\"", ":">> \o Itoa(errorCode)
    \o <<",", "\"", "m", "e", "s", "s", "a", "g", "e", "\"", ":", "\"">>
    \o StatusText(errorCode) \o <<"\"", "}", "\n">>

(***************************************************************************)
(* net/http.Redirect, as far as it rewrites the target: a target without a *)
(* host is made absolute against the directory of the request path and     *)
(* cleaned, a trailing "/" kept.                                           *)
(***************************************************************************)
RECURSIVE LastSlash(_, _)
LastSlash(p, k) == IF k = 0 \/ p[k] = "/" THEN k ELSE LastSlash(p, k - 1)

\* the directory part of path.Split
SplitDir(p) == SubSeq(p, 1, LastSlash(p, Len(p)))

\* url.Parse finds a host: the target starts with "//" and an authority follows
HasHost(url) ==
    /\ HasPrefix(url, <<"/", "/">>)
    /\ Len(url) > 2
    /\ url[3] # "/"

RedirectLocation(url, reqPath) ==
    IF HasHost(url) THEN url
    ELSE LET oldpath == IF reqPath = <<>> THEN <<"/">> ELSE reqPath
             abs == IF url = <<>> \/ url[1] # "/" THEN SplitDir(oldpath) \o url
                    ELSE url
             trailing == HasSuffix(abs, <<"/">>)
             cl == Clean(abs)
         IN  IF trailing /\ ~HasSuffix(cl, <<"/">>) THEN Append(cl, "/") ELSE cl


(***************************************************************************)
(* The state.                                                              *)
(***************************************************************************)
VARIABLES
    sep,                    \* filepath.Separator of the platform
    disk,                   \* the file system: OS name -> node
    fsErr,                  \* the error NewFileServer returned ("" for none)
    Settings,               \* fs.Settings
    Cache,                  \* fs.Cache: [nil, cleanupInterval]
    items,                  \* the cache engine's entries: key -> entry
    readers,                \* the bytes.Reader objects alive: id -> [data, pos]
    allowedHTTPMethodsMap,  \* fs.allowedHTTPMethodsMap: [built, keys]
    ErrorHandlers,          \* fs.ErrorHandlers: a sequence of handler kinds
                            \* (the empty sequence is the nil and the empty slice)
    FallbackErrorContent,   \* fs.FallbackErrorContent
    req,                    \* the requests in flight: slot -> request
    served                  \* history: key -> the body and the age of the
                            \* response that last served the file from disk,
                            \* and whether it put the file into the cache

vars == <<sep, disk, fsErr, Settings, Cache, items, readers,
          allowedHTTPMethodsMap, ErrorHandlers, FallbackErrorContent, req, served>>

EmptyMap == [x \in {} |-> 0]

Slots == {1, 2}

(***************************************************************************)
(* src/fileserver.go, ServeHTTP lines 517-539: the index redirect and the  *)
(* resolution of the request path to a file path.                          *)
(***************************************************************************)
\* lines 517-519
IsIndexRedirect(S, path) ==
    /\ S.RedirectIndexFileToRoot
    /\ Len(S.IndexFileName) > 0
    /\ HasSuffix(path, <<"/">> \o S.IndexFileName)

\* a redirect target that loses the "/" before the index file name
RedirectTargetBare(S, path) == SubSeq(path, 1, Len(path) - Len(S.IndexFileName) - 1)

\* line 520: the target handed to http.Redirect
RedirectTarget(S, path) == SubSeq(path, 1, Len(path) - Len(S.IndexFileName))

\* a resolution that never appends the index file name
URLPathPlain(S, path) ==
    IF Len(path) = 0 \/ ~HasPrefix(path, <<"/">>) THEN <<"/">> \o path ELSE path

\* lines 526-536
URLPath(S, path) ==
    LET u == IF Len(path) = 0 \/ ~HasPrefix(path, <<"/">>)
             THEN <<"/">> \o path ELSE path
    IN  IF Len(S.IndexFileName) > 0 /\ u[Len(u)] = "/"
        THEN u \o S.IndexFileName ELSE u

\* line 539
FilePath(S, path, s) == Join(S.FilesRoot, FromSlash(Clean(URLPath(S, path)), s))

(***************************************************************************)
(* The file system.  A node is a regular file, a directory, or a name      *)
(* whose stat fails for another reason than not-exist ("denied").  A       *)
(* regular file's mode tells whether it can be opened and read.            *)
(***************************************************************************)
NoNode == [kind |-> "none", data |-> <<>>, mtime |-> 0, mode |-> "ok"]

File(data, mtime, mode) ==
    [kind |-> "file", data |-> data, mtime |-> mtime, mode |-> mode]

Dir == [kind |-> "dir", data |-> <<>>, mtime |-> 0, mode |-> "ok"]

Denied == [kind |-> "denied", data |-> <<>>, mtime |-> 0, mode |-> "ok"]

\* os.Stat: a name below a regular file fails with ENOTDIR, which is not a
\* not-exist error
Stat(d, path, s) ==
    LET n == OSName(path, s)
    IN  IF n \in DOMAIN d THEN d[n]
        ELSE IF \E k \in 1..(Len(n) - 1) :
                    /\ SubSeq(n, 1, k) \in DOMAIN d
                    /\ d[SubSeq(n, 1, k)].kind = "file"
        THEN Denied
        ELSE NoNode

(***************************************************************************)
(* src/fileserver.go, NewFileServer, lines 427-471.                        *)
(***************************************************************************)
NilCache == [nil |-> TRUE, cleanupInterval |-> 0]

\* src/cache/cache.go, lines 36-41: the janitor runs every cleanupInterval,
\* and there is none when the interval is not positive
NewInMemoryCache(cleanupInterval) ==
    [nil |-> FALSE, cleanupInterval |-> cleanupInterval]

DefaultErrorHandlers == <<"JSONErrorHandler", "StaticHTMLPageErrorHandler">>

\* Go's integer division, which truncates toward zero
Quo(a, b) == IF a >= 0 THEN a \div b ELSE 0 - ((0 - a) \div b)

\* a constructor that takes every value that is not positive for unset
NewFileServerPositive(s, d, sp) ==
    LET info == Stat(d, s.FilesRoot, sp)
        err  == IF info.kind = "none" THEN "not exists"
                ELSE IF info.kind = "file" THEN "not directory"
                ELSE ""
        s1 == [s EXCEPT
                 !.IndexFileName = IF @ = <<>> THEN defaultIndexFileName ELSE @,
                 !.CacheTTL = IF @ <= 0 THEN defaultCacheTTL ELSE @,
                 !.CacheMaxFileSize = IF @ = 0 THEN defaultCacheMaxFileSize ELSE @,
                 !.CacheMaxItems = IF @ <= 0 THEN defaultCacheMaxItems ELSE @,
                 !.AllowedHTTPMethods = IF Len(@) = 0 THEN <<"GET">> ELSE @]
    IN  [err |-> err,
         Settings |-> s1,
         Cache |-> IF s.CacheEnabled
                   THEN NewInMemoryCache(Quo(s1.CacheTTL, 2))
                   ELSE NilCache,
         FallbackErrorContent |-> defaultFallbackErrorContent,
         ErrorHandlers |-> DefaultErrorHandlers]

NewFileServer(s, d, sp) ==
    LET info == Stat(d, s.FilesRoot, sp)
        err  == IF info.kind = "none" THEN "not exists"
                ELSE IF info.kind = "file" THEN "not directory"
                ELSE ""
        s1 == [s EXCEPT
                 !.IndexFileName = IF @ = <<>> THEN defaultIndexFileName ELSE @,
                 !.CacheTTL = IF @ = 0 THEN defaultCacheTTL ELSE @,
                 !.CacheMaxFileSize = IF @ = 0 THEN defaultCacheMaxFileSize ELSE @,
                 !.CacheMaxItems = IF @ = 0 THEN defaultCacheMaxItems ELSE @,
                 !.AllowedHTTPMethods = IF Len(@) = 0 THEN <<"GET">> ELSE @]
    IN  [err |-> err,
         Settings |-> s1,
         Cache |-> IF s.CacheEnabled
                   THEN NewInMemoryCache(Quo(s1.CacheTTL, 2))
                   ELSE NilCache,
         FallbackErrorContent |-> defaultFallbackErrorContent,
         ErrorHandlers |-> DefaultErrorHandlers]

(***************************************************************************)
(* src/cache/cache.go: the cache, a wrapper of go-cache.  An entry keeps   *)
(* the ttl it was set with and its age in ticks; an entry set with a ttl   *)
(* that is not positive never expires.                                     *)
(***************************************************************************)
Expired(it) == it.ttl > 0 /\ it.age > it.ttl

\* a lookup that does not look at the expiry
GetStale(its, key) ==
    IF key \in DOMAIN its
    THEN [found |-> TRUE, item |-> its[key]]
    ELSE [found |-> FALSE,
          item |-> [ModifiedTime |-> 0, Content |-> <<>>, ttl |-> 0, age |-> 0]]

\* InMemoryCache.Get, lines 43-52
Get(its, key) ==
    IF key \in DOMAIN its /\ ~Expired(its[key])
    THEN [found |-> TRUE, item |-> its[key]]
    ELSE [found |-> FALSE,
          item |-> [ModifiedTime |-> 0, Content |-> <<>>, ttl |-> 0, age |-> 0]]

\* a Set that keeps the entry a key already has
SetKeep(its, key, ttl, item) ==
    its @@ (key :> [ModifiedTime |-> item.ModifiedTime, Content |-> item.Content,
                    ttl |-> ttl, age |-> 0])

\* InMemoryCache.Set, lines 54-57
Set(its, key, ttl, item) ==
    (key :> [ModifiedTime |-> item.ModifiedTime, Content |-> item.Content,
             ttl |-> ttl, age |-> 0]) @@ its

\* InMemoryCache.Count, lines 59-63
Count(its) == Cardinality(DOMAIN its)

\* a sweep that removes every entry older than a tick
DeleteAged(its) == [k \in {x \in DOMAIN its : its[x].age = 0} |-> its[k]]

\* the janitor's DeleteExpired
DeleteExpired(its) == [k \in {x \in DOMAIN its : ~Expired(its[x])} |-> its[k]]

\* the clock advances by one tick (an age is followed until the entry has
\* expired; the age of an entry that never expires until the first tick)
Older(its) ==
    [k \in DOMAIN its |->
        [its[k] EXCEPT !.age = IF its[k].ttl > 0 THEN Min(@ + 1, its[k].ttl + 1) ELSE 1]]


(***************************************************************************)
(* A request.  pc is the place of its handler in ServeHTTP; ops and ran    *)
(* record what the handler did (the cache and file operations it made and  *)
(* the error handlers it ran); resp is the response it wrote.              *)
(***************************************************************************)
\* no reader
NoReader == <<>>

NoResp == [status |-> 0, ctype |-> "", body |-> <<>>, location |-> <<>>,
           modtime |-> 0, by |-> ""]

IdleReq ==
    [pc |-> "idle", Method |-> "", Path |-> <<>>, Accept |-> <<>>,
     Cancelled |-> FALSE,
     filePath |-> <<>>, errPath |-> <<>>, k |-> 0, size |-> 0, modtime |-> 0,
     file |-> <<>>, readable |-> TRUE, data |-> <<>>, rd |-> NoReader, src |-> "",
     errorCode |-> 0, h |-> 0, ops |-> {}, ran |-> <<>>, written |-> <<>>,
     resp |-> NoResp]

\* the state a handler reads and writes
World ==
    [sep |-> sep, disk |-> disk, Settings |-> Settings, Cache |-> Cache,
     items |-> items, readers |-> readers,
     allowedHTTPMethodsMap |-> allowedHTTPMethodsMap,
     ErrorHandlers |-> ErrorHandlers,
     FallbackErrorContent |-> FallbackErrorContent, req |-> req]

\* a test of the cache that does not look at Settings.CacheEnabled
CacheAvailableNonNil(w) == ~w.Cache.nil

\* lines 473-476
CacheAvailable(w) == w.Settings.CacheEnabled /\ ~w.Cache.nil

\* the modification time time.Now() gives an entry: no file's
TimeNow == 0 - 1

\* the readers a running handler holds
Held(w) ==
    {w.req[i].rd : i \in {j \in DOMAIN w.req : w.req[j].pc \notin {"idle", "done"}}}

\* a fresh bytes.Reader for the entry of key: named by the key and the least
\* number that tells it from the readers still alive for that key (the
\* reader of the entry it replaces is alive only while a handler holds it)
NewReaderId(w, key) ==
    LET live == Held(w) \cup {w.items[k].Content : k \in (DOMAIN w.items) \ {key}}
        g == CHOOSE n \in 0..Cardinality(live) :
                /\ <<key, n>> \notin live
                /\ \A m \in 0..(n - 1) : <<key, m>> \in live
    IN  <<key, g>>

\* readers no entry and no running handler refers to are garbage
Collect(w) ==
    LET live == {w.items[k].Content : k \in DOMAIN w.items} \cup Held(w)
    IN  [w EXCEPT !.readers = [id \in (DOMAIN @) \cap live |-> @[id]]]

Did(r, op) == [r EXCEPT !.ops = @ \cup {op}]

\* the handler returns, having written resp: written lists, in their order,
\* the components that have written a status to the http.ResponseWriter
Finish(w, i, r, resp) ==
    [w EXCEPT !.req[i] =
        [r EXCEPT !.pc = "done", !.rd = NoReader, !.resp = resp,
                  !.written = IF resp.status = 0 THEN @ ELSE Append(@, resp.by)]]

\* fs.handleError(w, r, errorCode) is called
StartError(w, i, r, errorCode) ==
    [w EXCEPT !.req[i] = [r EXCEPT !.pc = "handler", !.errorCode = errorCode,
                                   !.h = 1]]

(***************************************************************************)
(* src/fileserver.go, methodIsAllowed, lines 494-507, one step for every   *)
(* read or write of fs.allowedHTTPMethodsMap.                              *)
(***************************************************************************)
\* a method check that builds the map anew at every request
StepMethodRebuild(w, i) == [w EXCEPT !.req[i].pc = "make"]

\* line 495: the nil check
StepMethod(w, i) ==
    [w EXCEPT !.req[i].pc = IF w.allowedHTTPMethodsMap.built THEN "lookup"
                            ELSE "make"]

\* line 497: make
StepMake(w, i) ==
    [w EXCEPT !.allowedHTTPMethodsMap = [built |-> TRUE, keys |-> {}],
              !.req[i].pc = IF Len(w.Settings.AllowedHTTPMethods) = 0
                            THEN "lookup" ELSE "fill",
              !.req[i].k = 1]

\* lines 499-501: one iteration of the loop
StepFill(w, i) ==
    LET r == w.req[i]
        list == w.Settings.AllowedHTTPMethods
    IN  IF r.k > Len(list) THEN [w EXCEPT !.req[i].pc = "lookup"]
        ELSE [w EXCEPT !.allowedHTTPMethodsMap.keys = @ \cup {list[r.k]},
                       !.req[i].k = @ + 1,
                       !.req[i].pc = IF r.k + 1 > Len(list) THEN "lookup"
                                     ELSE "fill"]

\* a lookup that ignores the case of the method
MethodFoundFold(w, method) ==
    \/ method \in w.allowedHTTPMethodsMap.keys
    \/ method = "get" /\ "GET" \in w.allowedHTTPMethodsMap.keys

\* line 504: the lookup
MethodFound(w, method) == method \in w.allowedHTTPMethodsMap.keys

\* a lookup that asks the cache before it decides on the redirect
StepLookupGet(w, i) ==
    LET r == w.req[i]
        S == w.Settings
    IN  IF ~MethodFound(w, r.Method)
        THEN StartError(w, i, r, StatusMethodNotAllowed)
        ELSE IF IsIndexRedirect(S, r.Path)
        THEN Finish(w, i, Did(Did(r, "Get"), "Redirect"),
                    [NoResp EXCEPT
                       !.status = StatusMovedPermanently,
                       !.location = RedirectLocation(RedirectTarget(S, r.Path),
                                                     r.Path),
                       !.by = "redirect"])
        ELSE [w EXCEPT !.req[i] =
                 [r EXCEPT !.pc = "cacheget",
                           !.filePath = FilePath(S, r.Path, w.sep)]]

\* lines 504-539: the lookup, and on success the redirect or the resolution
StepLookup(w, i) ==
    LET r == w.req[i]
        S == w.Settings
    IN  IF ~MethodFound(w, r.Method)
        THEN StartError(w, i, r, StatusMethodNotAllowed)
        ELSE IF IsIndexRedirect(S, r.Path)
        THEN Finish(w, i, Did(r, "Redirect"),
                    [NoResp EXCEPT
                       !.status = StatusMovedPermanently,
                       !.location = RedirectLocation(RedirectTarget(S, r.Path),
                                                     r.Path),
                       !.by = "redirect"])
        ELSE [w EXCEPT !.req[i] =
                 [r EXCEPT !.pc = "cacheget",
                           !.filePath = FilePath(S, r.Path, w.sep)]]


(***************************************************************************)
(* src/fileserver.go, ServeHTTP, lines 541-586.                            *)
(***************************************************************************)
\* a cache lookup that always misses
StepCacheSkip(w, i) ==
    [w EXCEPT !.req[i] = [Did(w.req[i], "Get") EXCEPT !.pc = "stat"]]

\* a cache lookup that takes a hit only while the file is on the disk
StepCacheGetChecked(w, i) ==
    LET r == w.req[i]
        g == Get(w.items, r.filePath)
    IN  IF ~CacheAvailable(w) THEN [w EXCEPT !.req[i].pc = "stat"]
        ELSE IF g.found /\ Stat(w.disk, r.filePath, w.sep).kind = "file"
        THEN [w EXCEPT !.req[i] =
                 [Did(r, "Get") EXCEPT !.pc = "seekend", !.rd = g.item.Content,
                                       !.modtime = g.item.ModifiedTime,
                                       !.data = w.readers[g.item.Content].data,
                                       !.src = "cache"]]
        ELSE [w EXCEPT !.req[i] = [Did(r, "Get") EXCEPT !.pc = "stat"]]

\* a cache lookup whose hit makes the entry new again
StepCacheGetRenew(w, i) ==
    LET r == w.req[i]
        g == Get(w.items, r.filePath)
    IN  IF ~CacheAvailable(w) THEN [w EXCEPT !.req[i].pc = "stat"]
        ELSE IF g.found
        THEN [w EXCEPT !.items[r.filePath].age = 0,
                       !.req[i] =
                 [Did(r, "Get") EXCEPT !.pc = "seekend", !.rd = g.item.Content,
                                       !.modtime = g.item.ModifiedTime,
                                       !.data = w.readers[g.item.Content].data,
                                       !.src = "cache"]]
        ELSE [w EXCEPT !.req[i] = [Did(r, "Get") EXCEPT !.pc = "stat"]]

\* lines 542-548: the cache lookup; a hit serves cached.Content itself
StepCacheGet(w, i) ==
    LET r == w.req[i]
        g == Get(w.items, r.filePath)
    IN  IF ~CacheAvailable(w) THEN [w EXCEPT !.req[i].pc = "stat"]
        ELSE IF g.found
        THEN [w EXCEPT !.req[i] =
                 [Did(r, "Get") EXCEPT !.pc = "seekend", !.rd = g.item.Content,
                                       !.modtime = g.item.ModifiedTime,
                                       !.data = w.readers[g.item.Content].data,
                                       !.src = "cache"]]
        ELSE [w EXCEPT !.req[i] = [Did(r, "Get") EXCEPT !.pc = "stat"]]

\* a stat that takes a directory for a regular file
StepStatAny(w, i) ==
    LET r == Did(w.req[i], "Stat")
        info == Stat(w.disk, r.filePath, w.sep)
    IN  IF info.kind \in {"file", "dir"}
        THEN [w EXCEPT !.req[i] =
                 [r EXCEPT !.pc = "open", !.size = Len(info.data),
                           !.modtime = info.mtime]]
        ELSE StartError(w, i, r, StatusNotFound)

\* line 551: os.Stat and Mode().IsRegular()
StepStat(w, i) ==
    LET r == Did(w.req[i], "Stat")
        info == Stat(w.disk, r.filePath, w.sep)
    IN  IF info.kind = "file"
        THEN [w EXCEPT !.req[i] =
                 [r EXCEPT !.pc = "open", !.size = Len(info.data),
                           !.modtime = info.mtime]]
        ELSE StartError(w, i, r, StatusNotFound)

\* line 552: os.Open; it fails when the file is gone or may not be opened
StepOpen(w, i) ==
    LET r == Did(w.req[i], "Open")
        info == Stat(w.disk, r.filePath, w.sep)
    IN  IF info.kind \in {"file", "dir"} /\ info.mode # "noopen"
        THEN [w EXCEPT !.req[i] =
                 [r EXCEPT !.pc = "admit", !.file = info.data,
                           !.readable = (info.kind = "file" /\ info.mode = "ok")]]
        ELSE StartError(w, i, r, StatusInternalServerError)

\* an admission test that counts the entries that have not expired
AdmittedLive(w, size) ==
    /\ CacheAvailable(w)
    /\ Count(DeleteExpired(w.items)) < w.Settings.CacheMaxItems
    /\ size <= w.Settings.CacheMaxFileSize

\* an admission test without the size limit
AdmittedAnySize(w, size) ==
    /\ CacheAvailable(w)
    /\ Count(w.items) < w.Settings.CacheMaxItems

\* lines 558-560: the admission test
Admitted(w, size) ==
    /\ CacheAvailable(w)
    /\ Count(w.items) < w.Settings.CacheMaxItems
    /\ size <= w.Settings.CacheMaxFileSize

StepAdmit(w, i) ==
    LET r == w.req[i]
        r1 == IF CacheAvailable(w) THEN Did(r, "Count") ELSE r
    IN  [w EXCEPT !.req[i] =
            [r1 EXCEPT !.pc = IF Admitted(w, r.size) THEN "readall"
                              ELSE "servefile"]]

\* a read whose error is ignored: what was read before the failure is kept
StepReadAllPartial(w, i) ==
    LET r == Did(w.req[i], "ReadAll")
    IN  [w EXCEPT !.req[i] =
            [r EXCEPT !.pc = "set",
                      !.data = IF r.readable THEN r.file ELSE SubSeq(r.file, 1, 1)]]

\* line 561: ioutil.ReadAll(file); after a failed read the file itself is served
StepReadAll(w, i) ==
    LET r == Did(w.req[i], "ReadAll")
    IN  IF r.readable
        THEN [w EXCEPT !.req[i] = [r EXCEPT !.pc = "set", !.data = r.file]]
        ELSE [w EXCEPT !.req[i] = [r EXCEPT !.pc = "servefile"]]

\* lines 562-567: the reader that goes into the cache is the one served next
StepSet(w, i) ==
    LET r == Did(w.req[i], "Set")
        id == NewReaderId(w, r.filePath)
    IN  [w EXCEPT
           !.readers = (id :> [data |-> r.data, pos |-> 0]) @@ @,
           !.items = Set(@, r.filePath, w.Settings.CacheTTL,
                         [ModifiedTime |-> r.modtime, Content |-> id]),
           !.req[i] = [r EXCEPT !.pc = "seekend", !.rd = id, !.src = "buffer"]]

(***************************************************************************)
(* net/http.ServeContent on a reader shared through the cache: it seeks to *)
(* the end for the size, seeks back to the start and copies size bytes.    *)
(* Each call on the reader is a step, the reader's position is the         *)
(* reader's, not the request's.                                            *)
(***************************************************************************)
StepSeekEnd(w, i) ==
    LET r == w.req[i]
        n == Len(w.readers[r.rd].data)
    IN  [w EXCEPT !.readers[r.rd].pos = n,
                  !.req[i].size = n,
                  !.req[i].pc = "seekstart"]

StepSeekStart(w, i) ==
    LET r == w.req[i]
    IN  [w EXCEPT !.readers[r.rd].pos = 0, !.req[i].pc = "copy"]

\* io.CopyN(w, content, size): what the reader still holds, at most size bytes
ReadN(rdr, n) ==
    SubSeq(rdr.data, rdr.pos + 1, Min(Len(rdr.data), rdr.pos + n))

StepCopy(w, i) ==
    LET r == w.req[i]
        rdr == w.readers[r.rd]
        body == ReadN(rdr, r.size)
    IN  Finish([w EXCEPT !.readers[r.rd].pos = @ + Len(body)], i, r,
               [NoResp EXCEPT !.status = StatusOK, !.body = body,
                              !.modtime = r.modtime, !.by = r.src])

\* lines 571-575: http.ServeContent on the open file, the request's own
StepServeFile(w, i) ==
    LET r == w.req[i]
    IN  Finish(w, i, r,
               [NoResp EXCEPT !.status = StatusOK,
                              !.body = IF r.readable THEN r.file ELSE <<>>,
                              !.modtime = r.modtime, !.by = "file"])


(***************************************************************************)
(* src/fileserver.go, handleError, lines 478-492, and the handlers of      *)
(* src/errors.go.  The kinds "Custom" and "Decline" are the two handlers   *)
(* of the tests: one writes status 444 and returns true, the other writes  *)
(* nothing and returns false.                                              *)
(***************************************************************************)
HandlerKinds ==
    {"JSONErrorHandler", "StaticHTMLPageErrorHandler", "Custom", "Decline"}

StatusCustom == 444

CustomBody == <<"f", "o", "o", " ", "b", "a", "r">>

JSONSubstring == <<"j", "s", "o", "n">>

\* a test of the Accept header for the value "json" itself
WantsJSONOnly(accept) == accept = JSONSubstring

\* src/errors.go, line 48
WantsJSON(accept) == Contains(accept, JSONSubstring)

\* src/errors.go, line 69
ErrorFilePath(S) == Join(S.FilesRoot, S.ErrorFileName)

\* a fallback that writes the template as it is
FallbackRaw(w, i, r, order) ==
    Finish(w, i, r,
           [NoResp EXCEPT !.status = r.errorCode,
                          !.ctype = "text/html; charset=utf-8",
                          !.body = w.FallbackErrorContent,
                          !.by = "fallback"])

\* a fallback that writes nothing
FallbackSilent(w, i, r, order) == Finish(w, i, r, NoResp)

\* lines 487-491: the fallback
Fallback(w, i, r, order) ==
    Finish(w, i, r,
           [NoResp EXCEPT !.status = r.errorCode,
                          !.ctype = "text/html; charset=utf-8",
                          !.body = Build(w.FallbackErrorContent,
                                         r.errorCode, order),
                          !.by = "fallback"])

\* src/errors.go, lines 99-104: the error page is written
WritePage(w, i, r, template, order) ==
    Finish(w, i, r,
           [NoResp EXCEPT !.status = r.errorCode,
                          !.ctype = "text/html; charset=utf-8",
                          !.body = Build(template, r.errorCode, order),
                          !.by = "static"])

\* a chain whose JSON handler writes its header and status before it
\* looks at the Accept header, and declines afterwards
StepHandlerEager(w, i, order) ==
    LET r == w.req[i]
        hs == w.ErrorHandlers
        kind == hs[r.h]
        r1 == [r EXCEPT !.ran = Append(@, kind)]
        next == [w EXCEPT !.req[i] = [r1 EXCEPT !.h = @ + 1]]
    IN  IF r.h > Len(hs) THEN Fallback(w, i, r, order)
        ELSE IF kind = "JSONErrorHandler"
        THEN IF WantsJSON(r.Accept)
             THEN Finish(w, i, r1,
                         [NoResp EXCEPT !.status = r.errorCode,
                                        !.ctype = "application/json; charset=utf-8",
                                        !.body = JSONBody(r.errorCode),
                                        !.by = "json"])
             ELSE [w EXCEPT !.req[i] =
                      [r1 EXCEPT !.h = @ + 1, !.written = Append(@, "json")]]
        ELSE IF kind = "StaticHTMLPageErrorHandler"
        THEN IF Len(w.Settings.ErrorFileName) > 0
             THEN [w EXCEPT !.req[i] =
                      [r1 EXCEPT !.pc = "eget",
                                 !.errPath = ErrorFilePath(w.Settings)]]
             ELSE next
        ELSE IF kind = "Custom"
        THEN Finish(w, i, r1,
                    [NoResp EXCEPT !.status = StatusCustom, !.ctype = "blah blah",
                                   !.body = CustomBody, !.by = "custom"])
        ELSE next

\* the next handler of the chain is called, or the chain is over
StepHandler(w, i, order) ==
    LET r == w.req[i]
        hs == w.ErrorHandlers
        kind == hs[r.h]
        r1 == [r EXCEPT !.ran = Append(@, kind)]
        next == [w EXCEPT !.req[i] = [r1 EXCEPT !.h = @ + 1]]
    IN  IF r.h > Len(hs) THEN Fallback(w, i, r, order)
        ELSE IF kind = "JSONErrorHandler"
        THEN IF WantsJSON(r.Accept)
             THEN Finish(w, i, r1,
                         [NoResp EXCEPT !.status = r.errorCode,
                                        !.ctype = "application/json; charset=utf-8",
                                        !.body = JSONBody(r.errorCode),
                                        !.by = "json"])
             ELSE next
        ELSE IF kind = "StaticHTMLPageErrorHandler"
        THEN IF Len(w.Settings.ErrorFileName) > 0
             THEN [w EXCEPT !.req[i] =
                      [r1 EXCEPT !.pc = "eget",
                                 !.errPath = ErrorFilePath(w.Settings)]]
             ELSE next
        ELSE IF kind = "Custom"
        THEN Finish(w, i, r1,
                    [NoResp EXCEPT !.status = StatusCustom, !.ctype = "blah blah",
                                   !.body = CustomBody, !.by = "custom"])
        ELSE next

\* an error handler that asks the cache and reads the disk all the same
StepEGetSkip(w, i) ==
    [w EXCEPT !.req[i] =
        [(IF CacheAvailable(w) THEN Did(w.req[i], "EGet") ELSE w.req[i])
            EXCEPT !.pc = "eopen"]]

\* src/errors.go, lines 74-79: the cache lookup of the error page
StepEGet(w, i) ==
    LET r == w.req[i]
        g == Get(w.items, r.errPath)
    IN  IF ~CacheAvailable(w) THEN [w EXCEPT !.req[i].pc = "eopen"]
        ELSE IF g.found
        THEN [w EXCEPT !.req[i] =
                 [Did(r, "EGet") EXCEPT !.pc = "eread", !.rd = g.item.Content,
                                        !.data = w.readers[g.item.Content].data]]
        ELSE [w EXCEPT !.req[i] = [Did(r, "EGet") EXCEPT !.pc = "eopen"]]

\* src/errors.go, line 76: ioutil.ReadAll(cached.Content) reads from the
\* reader's position to its end
StepERead(w, i, order) ==
    LET r == w.req[i]
        rdr == w.readers[r.rd]
        templateContent == SubSeq(rdr.data, rdr.pos + 1, Len(rdr.data))
    IN  WritePage([w EXCEPT !.readers[r.rd].pos = Len(rdr.data)], i,
                  Did(r, "ERead"), templateContent, order)

\* src/errors.go, lines 82-89: os.Open, ioutil.ReadAll and the admission test
StepEOpen(w, i, order) ==
    LET r == Did(w.req[i], "EOpen")
        info == Stat(w.disk, r.errPath, w.sep)
        loaded == info.kind = "file" /\ info.mode = "ok"
        r1 == [r EXCEPT !.data = info.data]
    IN  IF ~loaded
        THEN [w EXCEPT !.req[i] = [r EXCEPT !.pc = "handler", !.h = @ + 1]]
        ELSE IF CacheAvailable(w)
        THEN IF Count(w.items) < w.Settings.CacheMaxItems
             THEN [w EXCEPT !.req[i] = [Did(r1, "ECount") EXCEPT !.pc = "eset"]]
             ELSE WritePage(w, i, Did(r1, "ECount"), info.data, order)
        ELSE WritePage(w, i, r1, info.data, order)

\* an error handler that caches the page under the path of the request
StepESetRequested(w, i, order) ==
    LET r == Did(w.req[i], "ESet")
        id == NewReaderId(w, r.filePath)
    IN  WritePage([w EXCEPT
                     !.readers = (id :> [data |-> r.data, pos |-> 0]) @@ @,
                     !.items = Set(@, r.filePath, w.Settings.CacheTTL,
                                   [ModifiedTime |-> TimeNow, Content |-> id])],
                  i, r, r.data, order)

\* src/errors.go, lines 90-93, and the page is written
StepESet(w, i, order) ==
    LET r == Did(w.req[i], "ESet")
        id == NewReaderId(w, r.errPath)
    IN  WritePage([w EXCEPT
                     !.readers = (id :> [data |-> r.data, pos |-> 0]) @@ @,
                     !.items = Set(@, r.errPath, w.Settings.CacheTTL,
                                   [ModifiedTime |-> TimeNow, Content |-> id])],
                  i, r, r.data, order)

(***************************************************************************)
(* One step of the handler in slot i, and the whole handler.               *)
(***************************************************************************)
Step(w, i, order) ==
    LET pc == w.req[i].pc
    IN  Collect(
        CASE pc = "method" -> StepMethod(w, i)
          [] pc = "make" -> StepMake(w, i)
          [] pc = "fill" -> StepFill(w, i)
          [] pc = "lookup" -> StepLookup(w, i)
          [] pc = "cacheget" -> StepCacheGet(w, i)
          [] pc = "stat" -> StepStat(w, i)
          [] pc = "open" -> StepOpen(w, i)
          [] pc = "admit" -> StepAdmit(w, i)
          [] pc = "readall" -> StepReadAll(w, i)
          [] pc = "set" -> StepSet(w, i)
          [] pc = "seekend" -> StepSeekEnd(w, i)
          [] pc = "seekstart" -> StepSeekStart(w, i)
          [] pc = "copy" -> StepCopy(w, i)
          [] pc = "servefile" -> StepServeFile(w, i)
          [] pc = "handler" -> StepHandler(w, i, order)
          [] pc = "eget" -> StepEGet(w, i)
          [] pc = "eread" -> StepERead(w, i, order)
          [] pc = "eopen" -> StepEOpen(w, i, order)
          [] pc = "eset" -> StepESet(w, i, order)
          [] OTHER -> w)

RECURSIVE Run(_, _, _)
Run(w, i, order) ==
    IF w.req[i].pc \in {"idle", "done"} THEN w ELSE Run(Step(w, i, order), i, order)

\* a request arrives in slot i
Arrive(w, i, method, path, accept) ==
    [w EXCEPT !.req[i] = [IdleReq EXCEPT !.pc = "method", !.Method = method,
                                         !.Path = path, !.Accept = accept]]


(***************************************************************************)
(* The servers and the requests of the specifications.                     *)
(***************************************************************************)
Root == <<"r">>

ErrorPage == <<"E", ":">> \o PatternCode \o <<" ">> \o PatternMessage

\* the served tree: r/a (2 bytes), r/b (3 bytes), r/i (1 byte) and r/d/i
\* (3 bytes), the index files, r/e (the error page), r/u (may not be
\* opened), r/w (can be opened, but reading it fails), r/n (an empty
\* directory); beside the root, a file i and a name p whose stat fails
InitialDisk ==
    (<<Root>> :> Dir)
    @@ (<<Root, <<"a">>>> :> File(<<"x", "y">>, 1, "ok"))
    @@ (<<Root, <<"b">>>> :> File(<<"x", "y", "z">>, 2, "ok"))
    @@ (<<Root, <<"i">>>> :> File(<<"R">>, 3, "ok"))
    @@ (<<Root, <<"d">>>> :> Dir)
    @@ (<<Root, <<"d">>, <<"i">>>> :> File(<<"D", "D", "D">>, 4, "ok"))
    @@ (<<Root, <<"e">>>> :> File(ErrorPage, 5, "ok"))
    @@ (<<Root, <<"u">>>> :> File(<<"U">>, 6, "noopen"))
    @@ (<<Root, <<"n">>>> :> Dir)
    @@ (<<Root, <<"w">>>> :> File(<<"W", "W">>, 8, "noread"))
    @@ (<< <<"i">> >> :> File(<<"S">>, 7, "ok"))
    @@ (<< <<"p">> >> :> Denied)

Removable == {<<Root, <<"a">>>>, <<Root, <<"e">>>>}

\* the settings the servers are built from: a cache TTL of 2 ticks, at most
\* 2 entries of at most 2 bytes
BaseSettings ==
    [FilesRoot |-> Root, IndexFileName |-> <<"i">>, ErrorFileName |-> <<>>,
     RedirectIndexFileToRoot |-> FALSE, AllowedHTTPMethods |-> <<"GET", "POST">>,
     CacheEnabled |-> FALSE, CacheTTL |-> 2, CacheMaxFileSize |-> 2,
     CacheMaxItems |-> 2]

CachedInput ==
    [BaseSettings EXCEPT !.ErrorFileName = <<"e">>,
                         !.RedirectIndexFileToRoot = TRUE,
                         !.CacheEnabled = TRUE]

PathInputs == {[BaseSettings EXCEPT !.RedirectIndexFileToRoot = rd] : rd \in BOOLEAN}

ServerInputs ==
    {[BaseSettings EXCEPT !.ErrorFileName = e, !.RedirectIndexFileToRoot = rd] :
        e \in {<<>>, <<"e">>}, rd \in BOOLEAN}
    \cup {CachedInput}
    \cup {[BaseSettings EXCEPT !.ErrorFileName = <<"u">>]}
    \cup {[BaseSettings EXCEPT !.FilesRoot = f] :
        f \in {<<"x">>, <<"r", "/", "a">>, <<"r", "/", "a", "/", "x">>, <<"p">>}}

\* the chains a test installs before serving
CustomChains ==
    {<<>>, <<"Custom">>, <<"Decline">>, <<"Decline", "Custom">>,
     <<"Custom", "JSONErrorHandler">>,
     <<"Decline", "StaticHTMLPageErrorHandler", "JSONErrorHandler">>}

AcceptJSON ==
    <<"a", "p", "p", "l", "i", "c", "a", "t", "i", "o", "n", "/", "j", "s", "o", "n">>

AcceptHTML == <<"t", "e", "x", "t", "/", "h", "t", "m", "l">>

Request(m, p, a) == [Method |-> m, Path |-> p, Accept |-> a, Cancelled |-> FALSE]

GetPaths ==
    {<<>>, <<"/">>, <<"/", "a">>, <<"/", "a", "/">>, <<"/", "b">>, <<"/", "d">>,
     <<"/", "d", "/">>, <<"/", "d", "/", "i">>, <<"/", "i">>, <<"/", "x">>,
     <<"/", "u">>, <<"/", "e">>, <<"/", "n", "/">>, <<"/", "w">>,
     <<"/", ".", ".", "/", ".", ".", "/", "a">>}

Requests ==
    {Request("GET", p, <<>>) : p \in GetPaths}
    \cup {Request("GET", p, a) : p \in {<<"/", "x">>, <<"/", "u">>},
                                 a \in {AcceptJSON, AcceptHTML}}
    \cup {Request(m, p, a) : m \in {"DELETE", "get"},
                             p \in {<<"/", "a">>, <<"/", "i">>},
                             a \in {<<>>, AcceptJSON}}
    \cup {Request("POST", <<"/", "a">>, <<>>)}
    \cup {[Request("GET", p, <<>>) EXCEPT !.Cancelled = TRUE] :
             p \in {<<"/", "a">>, <<"/", "x">>}}

\* the characters of the request paths of the path-resolution specification
PathAlphabet == {"/", ".", "\\", "i"}

\* the requests of the concurrent specification
ConcRequests ==
    {Request("GET", <<"/", "a">>, <<>>), Request("GET", <<"/">>, <<>>),
     Request("GET", <<"/", "x">>, <<>>)}

\* the state after fs, err := NewFileServer(s) on a platform with separator sp
InitServer(s, sp) ==
    LET fs == NewFileServer(s, InitialDisk, sp)
    IN  /\ sep = sp
        /\ disk = InitialDisk
        /\ fsErr = fs.err
        /\ Settings = fs.Settings
        /\ Cache = fs.Cache
        /\ ErrorHandlers = fs.ErrorHandlers
        /\ FallbackErrorContent = fs.FallbackErrorContent
        /\ items = EmptyMap
        /\ readers = EmptyMap
        /\ allowedHTTPMethodsMap = [built |-> FALSE, keys |-> {}]
        /\ req = [i \in Slots |-> IdleReq]
        /\ served = EmptyMap

Init == \E s \in ServerInputs : InitServer(s, "/")

\* the handler's effect on the server
Apply(w) ==
    /\ disk' = w.disk
    /\ Settings' = w.Settings
    /\ Cache' = w.Cache
    /\ items' = w.items
    /\ readers' = w.readers
    /\ allowedHTTPMethodsMap' = w.allowedHTTPMethodsMap
    /\ ErrorHandlers' = w.ErrorHandlers
    /\ FallbackErrorContent' = w.FallbackErrorContent
    /\ req' = w.req

Quiet == \A i \in Slots : req[i].pc = "idle"

\* no request was served yet
Fresh == Quiet /\ ~allowedHTTPMethodsMap.built /\ fsErr = ""

\* the response that last served a file from disk is remembered until the
\* cache TTL has passed (of the files that may be deleted)
Remember(r) ==
    IF /\ r.resp.status = StatusOK
       /\ r.resp.by \in {"file", "buffer"}
       /\ OSName(r.filePath, sep) \in Removable
    THEN (r.filePath :> [body |-> r.resp.body, age |-> 0,
                         cached |-> r.resp.by = "buffer"]) @@ served
    ELSE served

\* fs.ErrorHandlers is replaced before serving (the tests' beforeServing)
SetErrorHandlers(hs) ==
    /\ Fresh
    /\ ~Settings.CacheEnabled
    /\ ErrorHandlers = DefaultErrorHandlers
    /\ ErrorHandlers' = hs
    /\ UNCHANGED <<sep, disk, fsErr, Settings, Cache, items, readers,
                   allowedHTTPMethodsMap, FallbackErrorContent, req, served>>

\* fs.Settings.IndexFileName is emptied before serving
ClearIndexFileName ==
    /\ Fresh
    /\ ~Settings.CacheEnabled
    /\ ErrorHandlers = DefaultErrorHandlers
    /\ Settings.IndexFileName # <<>>
    /\ Settings' = [Settings EXCEPT !.IndexFileName = <<>>]
    /\ UNCHANGED <<sep, disk, fsErr, Cache, items, readers,
                   allowedHTTPMethodsMap, ErrorHandlers, FallbackErrorContent, req, served>>

\* FileServer.ServeHTTP, from the handler's call to its return
Handle(q, order) ==
    /\ fsErr = ""
    /\ \E w \in {Run([Arrive(World, 1, q.Method, q.Path, q.Accept)
                         EXCEPT !.req[1].Cancelled = q.Cancelled], 1, order)} :
           /\ Apply(w)
           /\ served' = IF Settings.CacheEnabled THEN Remember(w.req[1]) ELSE served
    /\ UNCHANGED <<sep, fsErr>>

\* a request arrives at the idle server and is answered
ServeHTTP(q, order) == Quiet /\ Handle(q, order)

\* the response has been sent
Return(i) ==
    /\ req[i].pc = "done"
    /\ req' = [req EXCEPT ![i] = IdleReq]
    /\ UNCHANGED <<sep, disk, fsErr, Settings, Cache, items, readers,
                   allowedHTTPMethodsMap, ErrorHandlers, FallbackErrorContent, served>>

\* one tick of the clock
Tick ==
    /\ Quiet
    /\ items' = Older(items)
    /\ served' = LET o == [k \in DOMAIN served |->
                              [served[k] EXCEPT !.age = @ + 1]]
                 IN  [k \in {x \in DOMAIN o : o[x].age <= Settings.CacheTTL} |-> o[k]]
    /\ UNCHANGED <<sep, disk, fsErr, Settings, Cache, readers,
                   allowedHTTPMethodsMap, ErrorHandlers, FallbackErrorContent, req>>

\* the janitor's sweep
Sweep ==
    /\ ~Cache.nil
    /\ Cache.cleanupInterval > 0
    /\ \E w \in {Collect([World EXCEPT !.items = DeleteExpired(@)])} :
           /\ items' = w.items
           /\ readers' = w.readers
    /\ UNCHANGED <<sep, disk, fsErr, Settings, Cache, allowedHTTPMethodsMap,
                   ErrorHandlers, FallbackErrorContent, req, served>>

IdleSweep == Quiet /\ Sweep

\* a file of the served tree is deleted
Remove(n) ==
    /\ Quiet
    /\ n \in DOMAIN disk
    /\ disk' = [x \in (DOMAIN disk) \ {n} |-> disk[x]]
    /\ UNCHANGED <<sep, fsErr, Settings, Cache, items, readers,
                   allowedHTTPMethodsMap, ErrorHandlers, FallbackErrorContent, req, served>>

Next ==
    \/ \E hs \in CustomChains : SetErrorHandlers(hs)
    \/ ClearIndexFileName
    \/ \E q \in Requests, order \in BuildOrders : ServeHTTP(q, order)
    \/ Return(1)
    \/ Tick
    \/ IdleSweep
    \/ \E n \in Removable : Remove(n)

\* one server, one request at a time
Spec == Init /\ [][Next]_vars

(***************************************************************************)
(* The path-resolution specification: a server without cache, on either    *)
(* platform, answers every request path of at most MaxPathLen characters.  *)
(***************************************************************************)
InitPath == \E s \in PathInputs, sp \in Separators : InitServer(s, sp)

\* one more character of the request path is read from the connection
Receive(c) ==
    /\ fsErr = ""
    /\ req[1].pc \in {"idle", "reading"}
    /\ req[2].pc = "idle"
    /\ Len(req[1].Path) < MaxPathLen
    /\ req' = [req EXCEPT ![1].pc = "reading", ![1].Path = Append(@, c)]
    /\ UNCHANGED <<sep, disk, fsErr, Settings, Cache, items, readers,
                   allowedHTTPMethodsMap, ErrorHandlers, FallbackErrorContent, served>>

\* the request line is complete: the handler is called with the path read
ServeRead(order) ==
    /\ req[1].pc \in {"idle", "reading"}
    /\ req[2].pc = "idle"
    /\ Handle(Request("GET", req[1].Path, <<>>), order)

NextPath ==
    \/ ClearIndexFileName
    \/ \E c \in PathAlphabet : Receive(c)
    \/ \E order \in BuildOrders : ServeRead(order)
    \/ Return(1)

SpecPath == InitPath /\ [][NextPath]_vars

(***************************************************************************)
(* The concurrent specification: the handlers of two requests run on one   *)
(* server with cache, their steps interleaved.                             *)
(***************************************************************************)
InitConc == InitServer(CachedInput, "/")

\* the hosting server starts a handler for a request
Begin(i, q) ==
    /\ req[i].pc = "idle"
    /\ req' = Arrive(World, i, q.Method, q.Path, q.Accept).req
    /\ UNCHANGED <<sep, disk, fsErr, Settings, Cache, items, readers,
                   allowedHTTPMethodsMap, ErrorHandlers, FallbackErrorContent, served>>

\* the handler in slot i takes its next step
Proceed(i, order) ==
    /\ req[i].pc \notin {"idle", "done"}
    /\ \E w \in {Step(World, i, order)} : Apply(w)
    /\ UNCHANGED <<sep, fsErr, served>>

\* a file of the served tree is deleted while requests are answered
Unlink(n) ==
    /\ n \in DOMAIN disk
    /\ disk' = [x \in (DOMAIN disk) \ {n} |-> disk[x]]
    /\ UNCHANGED <<sep, fsErr, Settings, Cache, items, readers,
                   allowedHTTPMethodsMap, ErrorHandlers, FallbackErrorContent, req, served>>

NextConc ==
    \/ \E i \in Slots, q \in ConcRequests : Begin(i, q)
    \/ \E i \in Slots, order \in BuildOrders : Proceed(i, order)
    \/ \E i \in Slots : Return(i)
    \/ Unlink(<<Root, <<"a">>>>)

SpecConc == InitConc /\ [][NextConc]_vars

(***************************************************************************)
(* The construction specification: the caller fills a Settings value,      *)
(* field by field from the zero value, and calls NewFileServer with it.    *)
(***************************************************************************)
\* the zero value of Settings
ZeroSettings ==
    [FilesRoot |-> <<>>, IndexFileName |-> <<>>, ErrorFileName |-> <<>>,
     RedirectIndexFileToRoot |-> FALSE, AllowedHTTPMethods |-> <<>>,
     CacheEnabled |-> FALSE, CacheTTL |-> 0, CacheMaxFileSize |-> 0,
     CacheMaxItems |-> 0]

\* the values a caller sets a field to
FieldValues ==
    [FilesRoot |-> {<<"r">>, <<"x">>, <<"r", "/", "a">>},
     IndexFileName |-> {<<"i">>},
     AllowedHTTPMethods |-> {<<"POST">>, <<"GET", "POST">>},
     CacheEnabled |-> {TRUE},
     CacheTTL |-> {2, 0 - 1},
     CacheMaxFileSize |-> {2},
     CacheMaxItems |-> {1, 0 - 1}]

InitNew ==
    /\ sep = "/"
    /\ disk = InitialDisk
    /\ fsErr = "new"
    /\ Settings = ZeroSettings
    /\ Cache = NilCache
    /\ ErrorHandlers = <<>>
    /\ FallbackErrorContent = <<>>
    /\ items = EmptyMap
    /\ readers = EmptyMap
    /\ allowedHTTPMethodsMap = [built |-> FALSE, keys |-> {}]
    /\ req = [i \in Slots |-> IdleReq]
    /\ served = EmptyMap

\* the caller sets one field of the Settings value
SetField(f, v) ==
    /\ fsErr = "new"
    /\ Settings[f] = ZeroSettings[f]
    /\ Settings' = [Settings EXCEPT ![f] = v]
    /\ UNCHANGED <<sep, disk, fsErr, Cache, items, readers,
                   allowedHTTPMethodsMap, ErrorHandlers, FallbackErrorContent,
                   req, served>>

\* fs, err := NewFileServer(Settings)
Construct ==
    /\ fsErr = "new"
    /\ \E fs \in {NewFileServer(Settings, disk, sep)} :
           /\ fsErr' = fs.err
           /\ Settings' = fs.Settings
           /\ Cache' = fs.Cache
           /\ ErrorHandlers' = fs.ErrorHandlers
           /\ FallbackErrorContent' = fs.FallbackErrorContent
    /\ UNCHANGED <<sep, disk, items, readers, allowedHTTPMethodsMap, req, served>>

\* the constructed server answers a request
ServeNew(q, order) == fsErr # "new" /\ ServeHTTP(q, order)

NextNew ==
    \/ \E f \in DOMAIN FieldValues : \E v \in FieldValues[f] : SetField(f, v)
    \/ Construct
    \/ \E order \in BuildOrders : ServeNew(Request("GET", <<"/">>, <<>>), order)
    \/ Return(1)

SpecNew == InitNew /\ [][NextNew]_vars

(***************************************************************************)
(* The cache specification: a cache of its own, as the cache's test uses   *)
(* it.  The time-to-live of an entry is positive, zero (go-cache's default *)
(* expiration, which NewInMemoryCache sets to none) or -1 (none).          *)
(***************************************************************************)
CacheKeys == {<<"f", "o", "o">>, <<"b", "a", "r">>}

CacheTTLs == {0 - 1, 0, 1, 2}

CacheData == {<<"a", "b", "c">>, <<"x">>}

CleanupIntervals == {0, 1}

InitCache ==
    /\ sep = "/"
    /\ disk = InitialDisk
    /\ fsErr = ""
    /\ Settings = ZeroSettings
    /\ \E ci \in CleanupIntervals : Cache = NewInMemoryCache(ci)
    /\ ErrorHandlers = <<>>
    /\ FallbackErrorContent = <<>>
    /\ items = EmptyMap
    /\ readers = EmptyMap
    /\ allowedHTTPMethodsMap = [built |-> FALSE, keys |-> {}]
    /\ req = [i \in Slots |-> IdleReq]
    /\ served = EmptyMap

\* cache.Set(k, ttl, &Item{ModifiedTime: now, Content: bytes.NewReader(data)})
CacheSet(k, ttl, data) ==
    /\ ~Cache.nil
    /\ LET id == NewReaderId(World, k)
       IN  \E w \in {Collect([World EXCEPT
                                !.readers = (id :> [data |-> data, pos |-> 0]) @@ @,
                                !.items = Set(@, k, ttl, [ModifiedTime |-> 1,
                                                         Content |-> id])])} :
               /\ items' = w.items
               /\ readers' = w.readers
    /\ UNCHANGED <<sep, disk, fsErr, Settings, Cache, allowedHTTPMethodsMap,
                   ErrorHandlers, FallbackErrorContent, req, served>>

\* time.Sleep: one tick of the clock
CacheTick ==
    /\ items' = Older(items)
    /\ UNCHANGED <<sep, disk, fsErr, Settings, Cache, readers,
                   allowedHTTPMethodsMap, ErrorHandlers, FallbackErrorContent,
                   req, served>>

\* the janitor's sweep; served remembers, for every entry the sweep met, its
\* age and whether the sweep kept it
CacheSweep ==
    /\ ~Cache.nil
    /\ Cache.cleanupInterval > 0
    /\ \E w \in {Collect([World EXCEPT !.items = DeleteExpired(@)])} :
           /\ items' = w.items
           /\ readers' = w.readers
           /\ served' = [k \in DOMAIN items |->
                            [age |-> items[k].age,
                             cached |-> k \in DOMAIN w.items]]
    /\ UNCHANGED <<sep, disk, fsErr, Settings, Cache, allowedHTTPMethodsMap,
                   ErrorHandlers, FallbackErrorContent, req>>

NextCache ==
    \/ \E k \in CacheKeys, ttl \in CacheTTLs, data \in CacheData : CacheSet(k, ttl, data)
    \/ CacheTick
    \/ CacheSweep

SpecCache == InitCache /\ [][NextCache]_vars

(***************************************************************************)
(* The expiry specification: servers with cache whose CacheTTL is 1 to 4   *)
(* units of time.Duration (a tick of the clock is one unit).  A request    *)
(* arrives only while the cache is empty, and then no other until the      *)
(* cache is empty again.  The clock advances, the janitor (if go-cache     *)
(* started one) sweeps on its ticker, and a handler returns.               *)
(***************************************************************************)
LiveTTLs == {1, 2, 3, 4}

LiveRequests ==
    {Request("GET", p, <<>>) : p \in {<<"/">>, <<"/", "a">>, <<"/", "b">>, <<"/", "x">>}}
    \cup {Request("GET", <<"/", "x">>, AcceptJSON)}

\* the keys the requests can put into the cache
LiveKeys ==
    {FilePath(CachedInput, q.Path, "/") : q \in LiveRequests}
    \cup {ErrorFilePath(CachedInput)}

InitLive ==
    \E ttl \in LiveTTLs : InitServer([CachedInput EXCEPT !.CacheTTL = ttl], "/")

\* a request arrives at the idle server whose cache is empty
ServeLive(q, order) == items = EmptyMap /\ ServeHTTP(q, order)

NextLive ==
    \/ \E q \in LiveRequests, order \in BuildOrders : ServeLive(q, order)
    \/ Return(1)
    \/ Tick
    \/ IdleSweep
    \/ \E n \in Removable : Remove(n)

SpecLive ==
    /\ InitLive
    /\ [][NextLive]_vars
    /\ WF_vars(Return(1))
    /\ WF_vars(Tick)
    /\ WF_vars(IdleSweep)

(***************************************************************************)
(* The responses.                                                          *)
(***************************************************************************)
Done(i) == req[i].pc = "done"

\* the request's method is one of Settings.AllowedHTTPMethods
Allowed(r) ==
    \E k \in 1..Len(Settings.AllowedHTTPMethods) :
        Settings.AllowedHTTPMethods[k] = r.Method

\* the pages Build can make of a template
Pages(t, errorCode) == {Build(t, errorCode, o) : o \in BuildOrders}

\* C1: the response of a request that hits a cache entry (a cache hit of
\* ServeHTTP or a cache hit of the error page) carries the complete content
\* of the entry, whatever other requests have read from the entry and
\* however the reads interleave.
C1_CompleteContent ==
    \A i \in Slots :
        Done(i) =>
            /\ req[i].resp.by = "cache" => req[i].resp.body = req[i].data
            /\ "ERead" \in req[i].ops =>
                   req[i].resp.body \in Pages(req[i].data, req[i].errorCode)

\* a cache hit answered 200 with a body that is not the entry's content
C1_Witness ==
    \E i \in Slots :
        /\ Done(i)
        /\ req[i].resp.by = "cache"
        /\ req[i].resp.status = StatusOK
        /\ req[i].resp.body # req[i].data
\* the response was written by the error chain or by the fallback
ErrorWriters == {"json", "static", "fallback", "custom"}

Gone(k) == Stat(disk, k, sep).kind = "none"

EndsInSlash(p) == p # <<>> /\ p[Len(p)] = "/"

\* the name a request path has under the root directory
Under(root, p) == root \o <<"/">> \o p

\* the file can be opened and read
Readable(info) == info.kind = "file" /\ info.mode = "ok"

C3_InsideRoot ==
    (Done(1) /\ req[1].ops \cap {"Get", "Stat", "Open"} # {}) =>
        Within(req[1].filePath, Settings.FilesRoot, sep)

\* on a platform whose separator is "\", the file i beside the root is served
C3_Witness ==
    /\ Done(1)
    /\ sep = "\\"
    /\ req[1].Path = <<"/", "\\", ".", ".", "/">>
    /\ ~Within(req[1].filePath, Settings.FilesRoot, sep)
    /\ req[1].resp.status = StatusOK
    /\ req[1].resp.body = <<"S">>

\* C4: a request whose method is not allowed is answered through the error
\* chain with code 405 before any other step (no redirect, no cache lookup,
\* no file access), never with 200 or 301.
C4_MethodNotAllowed ==
    (Done(1) /\ ~Allowed(req[1])) =>
        /\ req[1].errorCode = StatusMethodNotAllowed
        /\ req[1].ops \cap {"Redirect", "Get", "Stat", "Open", "Count",
                            "ReadAll", "Set"} = {}
        /\ req[1].resp.by \in ErrorWriters
        /\ req[1].resp.status \notin {StatusOK, StatusMovedPermanently}
        /\ ErrorHandlers # <<>> =>
               req[1].ran # <<>> /\ req[1].ran[1] = ErrorHandlers[1]
        /\ ErrorHandlers = DefaultErrorHandlers =>
               req[1].resp.status = StatusMethodNotAllowed

\* a method that differs from an allowed one in case only, for a path that
\* would be redirected
C4_Witness ==
    /\ Done(1)
    /\ req[1].Method = "get"
    /\ IsIndexRedirect(Settings, req[1].Path)
    /\ req[1].resp.status = StatusMethodNotAllowed

\* C5: on a freshly constructed server that answers requests concurrently,
\* no request whose method is allowed is answered 405.
C5_AllowedPasses ==
    \A i \in Slots :
        (Done(i) /\ Allowed(req[i])) => req[i].errorCode # StatusMethodNotAllowed

\* a GET answered 405 while another request fills the lookup set
C5_Witness ==
    \E i \in Slots :
        /\ Done(i)
        /\ req[i].Method = "GET"
        /\ req[i].resp.status = StatusMethodNotAllowed
        /\ \E j \in Slots : req[j].pc = "fill"

\* the request path ends with "/" and the index file name
IsIndexPath(p) ==
    /\ Settings.IndexFileName # <<>>
    /\ HasSuffix(p, <<"/">> \o Settings.IndexFileName)

\* the request path with the index file name removed
WithoutIndex(p) == SubSeq(p, 1, Len(p) - Len(Settings.IndexFileName))

\* a path in clean form: rooted, without empty, "." and ".." segments
CleanForm(p) ==
    /\ HasPrefix(p, <<"/">>)
    /\ ~Contains(p, <<"/", "/">>)
    /\ LET segs == OSElems(p, "/", 1, <<<<>>, <<>>>>)
       IN  \A k \in 1..Len(segs) : segs[k] \notin {<<".">>, <<".", ".">>}

\* on this platform the path has no separator but "/"
Plain(p) == \A k \in 1..Len(p) : p[k] = "/" \/ ~IsSep(p[k], sep)

C7_IndexFile ==
    (Done(1) /\ Allowed(req[1]) /\ (req[1].Path = <<>> \/ EndsInSlash(req[1].Path))) =>
        LET info == Stat(disk, Under(Settings.FilesRoot,
                                     req[1].Path \o Settings.IndexFileName), sep)
        IN  /\ Readable(info) =>
                   /\ req[1].resp.status = StatusOK
                   /\ req[1].resp.body = info.data
            /\ info.kind \in {"none", "dir"} =>
                   /\ req[1].errorCode = StatusNotFound
                   /\ req[1].resp.by \in ErrorWriters

\* C7 as stated, its last part: with an empty index file name a request
\* whose path is empty or ends in "/" returns 404.
C7_Original ==
    (/\ Done(1) /\ Allowed(req[1])
     /\ Settings.IndexFileName = <<>>
     /\ (req[1].Path = <<>> \/ EndsInSlash(req[1].Path))) =>
        req[1].errorCode = StatusNotFound

\* the index file of a sub-directory is served, not the root's
C7_Witness ==
    /\ Done(1)
    /\ req[1].Path = <<"/", "d", "/">>
    /\ req[1].resp.status = StatusOK
    /\ req[1].resp.body = <<"D", "D", "D">>

\* C8: an allowed request whose path does not end in "/" and names a
\* directory is answered through the error chain with code 404, the
\* directory is not opened or read, and no cache entry is a directory's.
C8_Directory ==
    /\ (/\ Done(1) /\ Allowed(req[1])
        /\ req[1].Path # <<>> /\ ~EndsInSlash(req[1].Path)
        /\ Stat(disk, Under(Settings.FilesRoot, req[1].Path), sep).kind = "dir") =>
           /\ req[1].errorCode = StatusNotFound
           /\ req[1].resp.by \in ErrorWriters
           /\ req[1].ops \cap {"Open", "ReadAll", "Set"} = {}
           /\ ErrorHandlers = DefaultErrorHandlers =>
                  req[1].resp.status = StatusNotFound
    /\ \A k \in DOMAIN items : Stat(disk, k, sep).kind # "dir"

\* a directory that holds an index file
C8_Witness ==
    /\ Done(1)
    /\ req[1].Path = <<"/", "d">>
    /\ Readable(Stat(disk, Under(Settings.FilesRoot, <<"/", "d", "/", "i">>), sep))
    /\ CacheAvailable(World)
    /\ req[1].resp.status = StatusNotFound

\* what the handler of a kind answers for the request: TRUE when it writes
\* the response
Returns(kind, r) ==
    CASE kind = "Custom" -> TRUE
      [] kind = "Decline" -> FALSE
      [] kind = "JSONErrorHandler" -> WantsJSON(r.Accept)
      [] kind = "StaticHTMLPageErrorHandler" ->
            /\ Settings.ErrorFileName # <<>>
            /\ \/ Readable(Stat(disk, ErrorFilePath(Settings), sep))
               \/ CacheAvailable(World) /\ Get(items, ErrorFilePath(Settings)).found

\* the writer of a handler kind
WriterOf(kind) ==
    CASE kind = "Custom" -> "custom"
      [] kind = "JSONErrorHandler" -> "json"
      [] kind = "StaticHTMLPageErrorHandler" -> "static"
      [] OTHER -> "none"

\* C9: handleError calls the handlers in registration order; the first that
\* returns true ends the chain and the response is what it wrote; when every
\* handler returns false, or there is none, the fallback is written: status
\* errorCode, Content-Type text/html and FallbackErrorContent with the
\* placeholders replaced.
C9_ErrorChain ==
    (Done(1) /\ req[1].errorCode # 0) =>
        LET r == req[1]
            hs == ErrorHandlers
            n == Len(r.ran)
        IN  /\ n <= Len(hs)
            /\ r.ran = SubSeq(hs, 1, n)
            /\ \A k \in 1..(n - 1) : ~Returns(hs[k], r)
            /\ IF r.resp.by = "fallback"
               THEN /\ n = Len(hs)
                    /\ \A k \in 1..n : ~Returns(hs[k], r)
                    /\ r.resp.status = r.errorCode
                    /\ r.resp.ctype = "text/html; charset=utf-8"
                    /\ r.resp.body \in Pages(FallbackErrorContent, r.errorCode)
                    /\ ~Contains(r.resp.body, PatternCode)
                    /\ ~Contains(r.resp.body, PatternMessage)
               ELSE /\ n >= 1
                    /\ Returns(hs[n], r)
                    /\ r.resp.by = WriterOf(hs[n])
                    /\ hs[n] = "Custom" =>
                           /\ r.resp.status = StatusCustom
                           /\ r.resp.body = CustomBody

\* the second handler of a chain answers with its own status
C9_Witness ==
    /\ Done(1)
    /\ ErrorHandlers = <<"Decline", "Custom">>
    /\ req[1].ran = <<"Decline", "Custom">>
    /\ req[1].resp.status = StatusCustom

\* the body the tests expect for 404
JSONNotFound ==
    <<"{", "\"", "c", "o", "d", "e", "\"", ":", "4", "0", "4", ",", "\"", "m",
      "e", "s", "s", "a", "g", "e", "\"", ":", "\"", "N", "o", "t", " ", "F",
      "o", "u", "n", "d", "\"", "}", "\n">>

\* C10: with the default chain an error for a request whose Accept header
\* contains "json" is answered with status errorCode (404, 405 or 500) and
\* the JSON body of code and reason phrase, also when an error file is
\* configured; the error file is then not looked up, read or cached.
C10_JSONFirst ==
    (/\ Done(1) /\ req[1].errorCode # 0
     /\ ErrorHandlers = DefaultErrorHandlers
     /\ Contains(req[1].Accept, <<"j", "s", "o", "n">>)) =>
        /\ req[1].errorCode \in {StatusNotFound, StatusMethodNotAllowed,
                                 StatusInternalServerError}
        /\ req[1].resp.status = req[1].errorCode
        /\ req[1].resp.ctype = "application/json; charset=utf-8"
        /\ req[1].resp.body = JSONBody(req[1].errorCode)
        /\ req[1].errorCode = StatusNotFound => req[1].resp.body = JSONNotFound
        /\ req[1].ops \cap {"EGet", "ERead", "EOpen", "ECount", "ESet"} = {}
        /\ req[1].ran = <<"JSONErrorHandler">>

\* a 500 answered in JSON although the error file is there
C10_Witness ==
    /\ Done(1)
    /\ req[1].errorCode = StatusInternalServerError
    /\ Settings.ErrorFileName # <<>>
    /\ Readable(Stat(disk, ErrorFilePath(Settings), sep))
    /\ req[1].resp.by = "json"
    /\ req[1].resp.status = StatusInternalServerError

\* the error file is configured, is on disk and can be read
ErrorFileReadable ==
    /\ Settings.ErrorFileName # <<>>
    /\ Readable(Stat(disk, ErrorFilePath(Settings), sep))

AllDecline(r) == \A k \in 1..Len(ErrorHandlers) : ~Returns(ErrorHandlers[k], r)

\* C12: every request (any method, any path, the empty one too, any Accept
\* header, any chain of error handlers) ends with ServeHTTP returned and a
\* response written; a failure is answered through the error chain, and
\* when every handler declines (also because the configured error file is
\* missing or cannot be read) the fallback answers with status errorCode.
C12_AlwaysAnswered ==
    /\ req[1].pc \in {"idle", "done"}
    /\ Done(1) =>
           /\ req[1].resp.status # 0
           /\ req[1].resp.by \in ErrorWriters \cup {"redirect", "cache", "buffer", "file"}
           /\ req[1].errorCode # 0 <=> req[1].resp.by \in ErrorWriters
           /\ (req[1].errorCode # 0 /\ AllDecline(req[1])) =>
                  /\ req[1].resp.by = "fallback"
                  /\ req[1].resp.status = req[1].errorCode
                  /\ req[1].resp.body # <<>>

\* the error file is configured but cannot be opened: the fallback answers
C12_Witness ==
    /\ Done(1)
    /\ ErrorHandlers = DefaultErrorHandlers
    /\ Settings.ErrorFileName # <<>>
    /\ Stat(disk, ErrorFilePath(Settings), sep).mode = "noopen"
    /\ "EOpen" \in req[1].ops
    /\ req[1].resp.by = "fallback"
    /\ req[1].resp.status = StatusInternalServerError

\* C13: NewFileServer returns a server only when the root directory exists
\* and is a directory at construction time; in every other case (the path
\* is missing, is a regular file, or its stat fails for another reason) it
\* returns an error and no server, so that no request is ever served.
C13_RootChecked ==
    /\ fsErr = "" => Stat(InitialDisk, Settings.FilesRoot, sep).kind = "dir"
    /\ fsErr # "" => Quiet /\ ~allowedHTTPMethodsMap.built

\* a server whose root is a name below a regular file answers a request
C13_Witness ==
    /\ fsErr = ""
    /\ Settings.FilesRoot = <<"r", "/", "a", "/", "x">>
    /\ Stat(InitialDisk, Settings.FilesRoot, sep).kind = "denied"
    /\ Done(1)
    /\ req[1].resp.status = StatusNotFound

\* the setting NewFileServer makes of a given one
Defaulted(v, zero, default) == IF v = zero THEN default ELSE v

\* C14: NewFileServer replaces each unset (zero) setting by its default and
\* keeps every explicitly set value: index file name index.html, cache TTL
\* 5 seconds, largest cached file 64 KiB, at most 64 entries, allowed
\* methods GET alone; the error chain is the JSON handler followed by the
\* static error-page handler, and a cache is created exactly when
\* CacheEnabled is true.
C14_Defaults ==
    [][(fsErr = "new" /\ fsErr' = "") =>
          /\ Settings' =
                [Settings EXCEPT
                   !.IndexFileName =
                       Defaulted(@, <<>>, <<"i", "n", "d", "e", "x", ".", "h", "t", "m", "l">>),
                   !.CacheTTL = Defaulted(@, 0, 5),
                   !.CacheMaxFileSize = Defaulted(@, 0, 65536),
                   !.CacheMaxItems = Defaulted(@, 0, 64),
                   !.AllowedHTTPMethods = Defaulted(@, <<>>, <<"GET">>)]
          /\ ErrorHandlers' = <<"JSONErrorHandler", "StaticHTMLPageErrorHandler">>
          /\ Cache'.nil = ~Settings.CacheEnabled]_vars

\* a server built from settings that name the root and enable the cache
C14_Witness ==
    /\ fsErr = ""
    /\ Settings.FilesRoot = Root
    /\ Settings.CacheEnabled
    /\ ~Cache.nil
    /\ Settings.IndexFileName = defaultIndexFileName
    /\ Settings.CacheTTL = defaultCacheTTL
    /\ Settings.CacheMaxFileSize = defaultCacheMaxFileSize
    /\ Settings.CacheMaxItems = defaultCacheMaxItems
    /\ Settings.AllowedHTTPMethods = <<"GET">>
    /\ ErrorHandlers = DefaultErrorHandlers

\* Set(k, ttl, e) followed at once by Get(k) gives e, and k is counted
SetThenGet ==
    \A k \in CacheKeys, ttl \in CacheTTLs, data \in CacheData :
        CacheSet(k, ttl, data) =>
            LET g == Get(items', k)
            IN  /\ g.found
                /\ g.item.ModifiedTime = 1
                /\ readers'[g.item.Content] = [data |-> data, pos |-> 0]
                /\ Count(items') = Count(items) + (IF k \in DOMAIN items THEN 0 ELSE 1)
                /\ Count(items') >= 1

\* a key that is not in the cache is not found, and nothing is counted in an
\* empty cache
MissingKey ==
    /\ \A k \in CacheKeys \ DOMAIN items :
           /\ ~Get(items, k).found
           /\ Get(items, k).item.Content = NoReader
    /\ items = EmptyMap => Count(items) = 0

\* C15 (as amended): Set(k, ttl, e) followed at once by Get(k) returns
\* (e, true) and Count includes the entry; Get of a key never set returns
\* (nil, false), with Count 0 on a fresh cache; an entry set with a positive
\* ttl is not found once more than ttl has passed, and a sweep after that
\* removes it from the count; an entry set with a ttl of zero or less never
\* expires: it is found and counted after any time and any sweep.
C15_RoundTrip ==
    [][/\ SetThenGet
       /\ MissingKey
       /\ \A k \in DOMAIN items :
              /\ (items[k].ttl > 0 /\ items[k].age > items[k].ttl) =>
                     /\ ~Get(items, k).found
                     /\ CacheSweep =>
                            /\ ~Get(items', k).found
                            /\ k \notin DOMAIN items'
                            /\ Count(items') < Count(items)
              /\ items[k].ttl <= 0 =>
                     /\ Get(items, k).found
                     /\ (CacheSweep \/ CacheTick) =>
                            Get(items', k).found /\ k \in DOMAIN items']_vars

\* C15 as stated, its last part: after the time ttl has passed since the
\* Set and a sweep has run, Get(k) finds nothing and Count excludes the
\* entry.
C15_Original ==
    [][\A k \in DOMAIN items :
          (CacheSweep /\ items[k].age > 0 /\ items[k].age > items[k].ttl) =>
              /\ ~Get(items', k).found
              /\ k \notin DOMAIN items']_vars

\* the sweep has removed an expired entry, the only one: it is not found
\* and not counted
C15_Witness ==
    \E k \in DOMAIN served :
        /\ served[k].age > 1
        /\ ~served[k].cached
        /\ ~Get(items, k).found
        /\ Count(items) = 0

\* C16: in every reachable state, also when requests for distinct files
\* that all miss the cache are answered concurrently, the cache holds at
\* most Settings.CacheMaxItems entries.
C16_CountBound == Count(items) <= Settings.CacheMaxItems

\* two handlers have passed the count test together and both have set their
\* entry
C16_Witness ==
    /\ Settings.CacheMaxItems = 2
    /\ Count(items) = 3
    /\ \A i \in Slots : Done(i) /\ req[i].ops \cap {"Set", "ESet"} # {}

\* the content length of the entry of key k
EntrySize(k) == Len(readers[items[k].Content].data)

\* C17: every entry of the cache, put there by ServeHTTP or by the static
\* error-page handler, has a content of at most Settings.CacheMaxFileSize
\* bytes.
C17_EntrySize == \A k \in DOMAIN items : EntrySize(k) <= Settings.CacheMaxFileSize

\* the error page, larger than CacheMaxFileSize, has been put into the cache
C17_Witness ==
    /\ Done(1)
    /\ "ESet" \in req[1].ops
    /\ ErrorFilePath(Settings) \in DOMAIN items
    /\ EntrySize(ErrorFilePath(Settings)) = Len(ErrorPage)
    /\ Len(ErrorPage) > Settings.CacheMaxFileSize

\* C18: on a cache miss a not-found condition (the file is missing at any
\* step of the request, the path is not a regular file, the stat fails) is
\* answered through the error chain with 404, and 500 is the code only when
\* a file that exists cannot be opened.
C18_NotFoundOr500 ==
    \A i \in Slots :
        (Done(i) /\ "Stat" \in req[i].ops /\ req[i].errorCode # 0) =>
            LET info == Stat(disk, req[i].filePath, sep)
            IN  /\ req[i].errorCode \in {StatusNotFound, StatusInternalServerError}
                /\ req[i].errorCode = StatusInternalServerError =>
                       info.kind = "file" /\ info.mode = "noopen"
                /\ info.kind # "file" => req[i].errorCode = StatusNotFound

\* the file was deleted between the stat and the open: the code is 500
C18_Witness ==
    \E i \in Slots :
        /\ Done(i)
        /\ req[i].Path = <<"/", "a">>
        /\ "Open" \in req[i].ops
        /\ Gone(req[i].filePath)
        /\ req[i].errorCode = StatusInternalServerError
        /\ req[i].resp.status = StatusInternalServerError

\* ServeHTTP has answered a request in this step
Answered == Quiet /\ req'[1].pc = "done"

\* the request answered in this step went past the cache lookup to a
\* regular file that can be read
ReachedFile ==
    LET r == req'[1]
    IN  /\ Answered
        /\ "Stat" \in r.ops
        /\ ~(CacheAvailable(World) /\ Get(items, r.filePath).found)
        /\ Readable(Stat(disk, r.filePath, sep))

\* what the settings say of a file: it may be put into the cache
\* the request has opened a regular file after a cache miss
OpenedFile ==
    LET r == req'[1]
        info == Stat(disk, r.filePath, sep)
    IN  /\ Answered
        /\ "Open" \in r.ops
        /\ ~(CacheAvailable(World) /\ Get(items, r.filePath).found)
        /\ info.kind = "file" /\ info.mode # "noopen"

Eligible(info) ==
    /\ Settings.CacheEnabled /\ ~Cache.nil
    /\ Count(items) < Settings.CacheMaxItems
    /\ Len(info.data) <= Settings.CacheMaxFileSize

\* C19: when caching is enabled and an existing regular file is not
\* admitted to the cache (it is larger than CacheMaxFileSize, or the count
\* of entries, expired ones that were not swept yet included, is at
\* CacheMaxItems), the request is answered 200 with the file's full content
\* read from disk, the cache is left as it was and no error handler runs.
C19_SilentRefusal ==
    [][LET r == req'[1]
           info == Stat(disk, r.filePath, sep)
       IN  (/\ ReachedFile
            /\ Settings.CacheEnabled /\ ~Cache.nil
            /\ \/ Len(info.data) > Settings.CacheMaxFileSize
               \/ Cardinality(DOMAIN items) >= Settings.CacheMaxItems) =>
               /\ r.resp.status = StatusOK
               /\ r.resp.body = info.data
               /\ r.resp.by = "file"
               /\ r.errorCode = 0
               /\ r.ran = <<>>
               /\ r.ops \cap {"ReadAll", "Set"} = {}
               /\ items' = items
               /\ readers' = readers]_vars

\* a file small enough for the cache is served from disk because the two
\* entries counted, both expired, have not been swept
C19_Witness ==
    /\ Done(1)
    /\ req[1].resp.by = "file"
    /\ req[1].resp.status = StatusOK
    /\ req[1].resp.body = <<"x", "y">>
    /\ "Count" \in req[1].ops
    /\ Count(items) = Settings.CacheMaxItems
    /\ \A k \in DOMAIN items : Expired(items[k])

\* C20 (as amended): ServeHTTP buffers a file and puts it into the cache
\* under its resolved path exactly when caching is enabled, the count of
\* entries is below CacheMaxItems, the file's size is at most
\* CacheMaxFileSize and the read of the opened file succeeds; the entry then
\* holds the file's full content, its modification time and the configured
\* TTL; in every other case the request sets no entry for its path.
C20_Admission ==
    [][LET r == req'[1]
           k == r.filePath
           info == Stat(disk, k, sep)
       IN  /\ (ReachedFile /\ Eligible(info)) =>
                  /\ r.ops \cap {"ReadAll", "Set"} = {"ReadAll", "Set"}
                  /\ k \in DOMAIN items'
                  /\ readers'[items'[k].Content].data = info.data
                  /\ items'[k].ModifiedTime = info.mtime
                  /\ items'[k].ttl = Settings.CacheTTL
                  /\ items'[k].age = 0
                  /\ r.resp.status = StatusOK
                  /\ r.resp.body = info.data
           /\ (Answered /\ ~(ReachedFile /\ Eligible(info))) =>
                  /\ "Set" \notin r.ops
                  /\ "ReadAll" \in r.ops =>
                         /\ OpenedFile
                         /\ Eligible(info)
                         /\ info.mode = "noread"
                  /\ k \in DOMAIN items' => (k \in DOMAIN items /\ items'[k] = items[k])
                  /\ k \notin DOMAIN items' => k \notin DOMAIN items]_vars

\* C20 as stated: the three conditions alone decide, whether or not the
\* opened file can be read.
C20_Original ==
    [][LET r == req'[1]
           k == r.filePath
       IN  (OpenedFile /\ Eligible(Stat(disk, k, sep))) =>
               /\ "Set" \in r.ops
               /\ k \in DOMAIN items'
               /\ items'[k].ttl = Settings.CacheTTL]_vars

\* the second entry of two is the index file of the root, set with the
\* configured TTL
C20_Witness ==
    /\ Done(1)
    /\ req[1].Path = <<"/">>
    /\ "Set" \in req[1].ops
    /\ Count(items) = Settings.CacheMaxItems
    /\ req[1].filePath \in DOMAIN items
    /\ items[req[1].filePath].ttl = Settings.CacheTTL
    /\ readers[items[req[1].filePath].Content].data = <<"R">>
    /\ req[1].resp.by = "buffer"

\* more time than its ttl has passed since the entry was set
Elapsed(it) == it.ttl > 0 /\ it.age >= it.ttl + 1

\* C21: Get never returns an expired entry: once the ttl of an entry has
\* elapsed Get(key) returns (nil, false), swept or not, and ServeHTTP (and
\* the static error-page handler) treats the request as a cache miss and
\* goes to disk.
C21_ExpiredIsAbsent ==
    [][/\ \A k \in DOMAIN items :
              Elapsed(items[k]) =>
                  /\ ~Get(items, k).found
                  /\ Get(items, k).item.Content = NoReader
       /\ LET r == req'[1]
              k == r.filePath
              info == Stat(disk, k, sep)
          IN  (/\ Answered /\ "Get" \in r.ops
               /\ k \in DOMAIN items /\ Elapsed(items[k])) =>
                  /\ r.resp.by # "cache"
                  /\ "Stat" \in r.ops
                  /\ Readable(info) =>
                         /\ r.resp.status = StatusOK
                         /\ r.resp.body = info.data
                         /\ r.resp.by \in {"buffer", "file"}
                  /\ info.kind = "none" => r.errorCode = StatusNotFound
       /\ LET r == req'[1]
              e == r.errPath
          IN  (/\ Answered /\ "EGet" \in r.ops
               /\ e \in DOMAIN items /\ Elapsed(items[e])) =>
                  /\ "ERead" \notin r.ops
                  /\ "EOpen" \in r.ops]_vars

\* the file is deleted and its entry has expired but was not swept: 404
C21_Witness ==
    /\ Done(1)
    /\ "Get" \in req[1].ops
    /\ req[1].filePath \in DOMAIN items
    /\ Elapsed(items[req[1].filePath])
    /\ Gone(req[1].filePath)
    /\ req[1].Path = <<"/", "a">>
    /\ req[1].resp.status = StatusNotFound

\* the ages an entry is looked at
Ages == 0..3

\* the entry expires when more than ttl has passed since it was set
ExpiresAfter(it, ttl) ==
    \A a \in Ages : Get(("k" :> [it EXCEPT !.age = a]), "k").found <=> a <= ttl

\* the entry is found at every age
NeverExpires(it) ==
    \A a \in Ages : Get(("k" :> [it EXCEPT !.age = a]), "k").found

\* Set(k, ttl, e) on a key that has an entry replaces it: the keys and the
\* count are the same, the other entries untouched, Get(k) returns e
Replaces(k, data) ==
    LET g == Get(items', k)
    IN  /\ DOMAIN items' = DOMAIN items
        /\ Count(items') = Count(items)
        /\ \A x \in (DOMAIN items) \ {k} : items'[x] = items[x]
        /\ g.found
        /\ readers'[g.item.Content] = [data |-> data, pos |-> 0]
        /\ items'[k].age = 0

\* C22 (as amended): the cache holds at most one entry per key: Set on a key
\* that has an entry (expired or not) replaces it and leaves Count
\* unchanged, and a following Get returns the new entry; with ttl > 0 the
\* expiry restarts at the time of the Set plus ttl, with ttl <= 0 the new
\* entry has no expiry, whatever the expiry of the entry it replaces.
C22_OnePerKey ==
    [][\A k \in CacheKeys, ttl \in CacheTTLs, data \in CacheData :
          (CacheSet(k, ttl, data) /\ k \in DOMAIN items) =>
              /\ Replaces(k, data)
              /\ ttl > 0 => ExpiresAfter(items'[k], ttl)
              /\ ttl <= 0 => NeverExpires(items'[k])]_vars

\* C22 as stated: the Set restarts the expiry at the time of the Set plus
\* ttl.
C22_Original ==
    [][\A k \in CacheKeys, ttl \in CacheTTLs, data \in CacheData :
          (CacheSet(k, ttl, data) /\ k \in DOMAIN items) =>
              /\ Replaces(k, data)
              /\ ExpiresAfter(items'[k], ttl)]_vars

\* the entry the last sweep met, and kept, has been set again since: it is
\* younger than the sweep found it and is the only entry
C22_Witness ==
    \E k \in DOMAIN served :
        /\ served[k].cached
        /\ k \in DOMAIN items
        /\ items[k].age < served[k].age
        /\ items[k].ttl = 1
        /\ Count(items) = 1

\* the request answered in this step set no entry and left the cache as it
\* was
NothingSet ==
    /\ req'[1].ops \cap {"Set", "ESet"} = {}
    /\ items' = items

\* every entry holds the whole content of a file: that of the file it is
\* named after, when the file is still there
WholeEntries ==
    \A k \in DOMAIN items :
        LET info == Stat(disk, k, sep)
        IN  info.kind = "file" => readers[items[k].Content].data = info.data

Kept(k) ==
    /\ k \in DOMAIN items'
    /\ items'[k].Content = items[k].Content
    /\ items'[k].ModifiedTime = items[k].ModifiedTime
    /\ items'[k].ttl = items[k].ttl
    /\ items'[k].age \in {items[k].age, items[k].age + 1}
    /\ readers'[items'[k].Content].data = readers[items[k].Content].data

\* C24: an entry whose TTL has not elapsed stays retrievable whatever
\* requests are answered in between: a request that meets the cache at its
\* ceiling of entries inserts nothing and neither removes nor replaces an
\* entry, and the sweep removes expired entries only.
C24_NoEviction ==
    [][/\ \A k \in DOMAIN items :
              ~Elapsed(items[k]) =>
                  /\ Kept(k)
                  /\ ~Elapsed(items'[k]) => Get(items', k).found
       /\ (Answered /\ Count(items) >= Settings.CacheMaxItems) => items' = items
       /\ \A k \in (DOMAIN items) \ DOMAIN items' :
              Elapsed(items[k]) /\ req' = req]_vars

\* the index file is served from its entry although, since it was set, the
\* cache at its ceiling has refused the file r/a
C24_Witness ==
    LET a == <<"r", "/", "a">>
        k == req[1].filePath
    IN  /\ Done(1)
        /\ req[1].Path = <<"/">>
        /\ req[1].resp.by = "cache"
        /\ req[1].resp.status = StatusOK
        /\ Count(items) = Settings.CacheMaxItems
        /\ a \notin DOMAIN items
        /\ a \in DOMAIN served
        /\ ~served[a].cached
        /\ served[a].age < items[k].age

\* C25: on every server built with caching enabled the sweep runs without
\* being driven by requests, so that every entry put into the cache is
\* removed in the end, and no longer counted, although no further request
\* arrives.
C25_EventuallySwept ==
    \A k \in LiveKeys : (k \in DOMAIN items) ~> (k \notin DOMAIN items)

\* an expired entry in the cache of a server that has no janitor
C25_Witness ==
    /\ ~Cache.nil
    /\ Settings.CacheTTL = 1
    /\ Cache.cleanupInterval = 0
    /\ Quiet
    /\ Count(items) = 1
    /\ \E k \in DOMAIN items : Elapsed(items[k])

\* C26: in every server NewFileServer returns the cache TTL is greater than
\* zero, and every entry the server puts into the cache has an expiry.
C26_PositiveTTL ==
    fsErr = "" =>
        /\ Settings.CacheTTL > 0
        /\ \A k \in DOMAIN items : items[k].ttl > 0 /\ ~NeverExpires(items[k])

\* a server built with CacheTTL = -1 has cached the index file for ever
C26_Witness ==
    /\ fsErr = ""
    /\ Settings.CacheTTL = 0 - 1
    /\ Done(1)
    /\ req[1].resp.status = StatusOK
    /\ "Set" \in req[1].ops
    /\ NeverExpires(items[req[1].filePath])

\* C27: a request answered with the 301 index redirect does nothing but the
\* redirect: no cache lookup, no insert, no stat, no open, no error handler,
\* and the cache's entries, their readers and their count stay as they were.
C27_RedirectStops ==
    [][(Answered /\ req'[1].resp.status = StatusMovedPermanently) =>
          /\ req'[1].ops = {"Redirect"}
          /\ req'[1].ran = <<>>
          /\ req'[1].resp.by = "redirect"
          /\ items' = items
          /\ readers' = readers
          /\ Count(items') = Count(items)
          /\ disk' = disk]_vars

\* a redirect answered by a server whose cache holds the file the redirect
\* points at
C27_Witness ==
    /\ Done(1)
    /\ req[1].resp.status = StatusMovedPermanently
    /\ Settings.CacheEnabled
    /\ ~Cache.nil
    /\ Count(items) > 0

\* the server state a request leaves behind
Lasting ==
    <<sep, disk, fsErr, Settings, Cache, items, readers, allowedHTTPMethodsMap,
      ErrorHandlers, FallbackErrorContent>>

\* the cache keys the request r has written
Touched(r) ==
    (IF "Set" \in r.ops THEN {r.filePath} ELSE {})
    \cup (IF "ESet" \in r.ops THEN {r.errPath} ELSE {})

\* the cache keys whose reader the request r has read
ReadKeys(r) ==
    (IF r.resp.by = "cache" THEN {r.filePath} ELSE {})
    \cup (IF "ERead" \in r.ops THEN {r.errPath} ELSE {})

\* the request was answered with an error or from a cache hit
ErrorOrHit(r) ==
    \/ r.resp.status \in {StatusNotFound, StatusMethodNotAllowed,
                          StatusInternalServerError}
    \/ r.resp.by = "cache"

\* C28: what a request leaves behind is: the allowed-methods map, built by
\* the first request; the cache entry of the served file (step 5) or the
\* one of the error page, which the static error handler inserts under
\* root + error file name; and the position of a cached reader the request
\* has read.  Settings, handlers, the disk and every other entry are as
\* they were.
C28_Lasting ==
    [][Answered =>
          LET r == req'[1]
              list == Settings.AllowedHTTPMethods
          IN  /\ UNCHANGED <<sep, disk, fsErr, Settings, Cache, ErrorHandlers,
                             FallbackErrorContent>>
              /\ allowedHTTPMethodsMap' =
                     [built |-> TRUE, keys |-> {list[j] : j \in DOMAIN list}]
              /\ allowedHTTPMethodsMap.built =>
                     allowedHTTPMethodsMap' = allowedHTTPMethodsMap
              /\ DOMAIN items \subseteq DOMAIN items'
              /\ \A k \in (DOMAIN items') \ Touched(r) :
                     /\ k \in DOMAIN items
                     /\ items'[k] = items[k]
                     /\ readers'[items[k].Content].data = readers[items[k].Content].data
                     /\ k \notin ReadKeys(r) =>
                            readers'[items[k].Content] = readers[items[k].Content]
              /\ "Set" \in r.ops => r.resp.status = StatusOK /\ r.resp.by = "buffer"
              /\ "ESet" \in r.ops => r.resp.by = "static" /\ ErrorOrHit(r)]_vars

\* C28 as stated: a request changes nothing but the cache entry of the file
\* it serves, and one answered with 404, 405 or 500 or from a cache hit
\* changes nothing at all.
C28_Original ==
    [][Answered =>
          LET r == req'[1]
          IN  /\ UNCHANGED <<sep, disk, fsErr, Settings, Cache, readers,
                             allowedHTTPMethodsMap, ErrorHandlers,
                             FallbackErrorContent>>
                 \/ "Set" \in r.ops
              /\ \A k \in (DOMAIN items \cup DOMAIN items') \ {r.filePath} :
                     k \in DOMAIN items /\ k \in DOMAIN items' /\ items'[k] = items[k]
              /\ ErrorOrHit(r) => UNCHANGED Lasting]_vars

\* a 404 whose error page went into a cache that holds a served file
C28_Witness ==
    /\ Done(1)
    /\ req[1].resp.status = StatusNotFound
    /\ "ESet" \in req[1].ops
    /\ req[1].errPath \in DOMAIN items
    /\ \E k \in DOMAIN items : k # req[1].errPath

\* the static error-page handler was called for the request r
StaticCalled(r) ==
    \E k \in 1..Len(r.ran) : r.ran[k] = "StaticHTMLPageErrorHandler"

\* the cache answers for the error page
ErrorPageHit ==
    /\ CacheAvailable(World)
    /\ Get(items, Join(Settings.FilesRoot, Settings.ErrorFileName)).found

\* C29: the static error-page handler declines, writing nothing, when no
\* error file name is configured, or when the cache has no entry under
\* root + error file name and the file cannot be opened and read; after it
\* the default chain ends in the built-in fallback.  Otherwise it answers:
\* from the cache on a hit, without opening the file (be it deleted
\* meanwhile), from the disk on a miss.
C29_StaticDeclines ==
    [][(Answered /\ StaticCalled(req'[1])) =>
          LET r == req'[1]
              key == Join(Settings.FilesRoot, Settings.ErrorFileName)
              declines == \/ Settings.ErrorFileName = <<>>
                          \/ ~ErrorPageHit /\ ~ErrorFileReadable
          IN  /\ declines =>
                    /\ r.resp.by # "static"
                    /\ r.ops \cap {"ERead", "ESet", "ECount"} = {}
                    /\ items' = items
                    /\ ErrorHandlers = DefaultErrorHandlers =>
                           /\ r.resp.by = "fallback"
                           /\ r.resp.status = r.errorCode
              /\ ~declines =>
                    /\ r.resp.by = "static"
                    /\ r.resp.status = r.errorCode
              /\ "EGet" \in r.ops => r.errPath = key /\ CacheAvailable(World)
              /\ ErrorPageHit /\ Settings.ErrorFileName # <<>> =>
                    /\ {"EGet", "ERead"} \subseteq r.ops
                    /\ r.ops \cap {"EOpen", "ESet", "ECount"} = {}
              /\ ~ErrorPageHit /\ Settings.ErrorFileName # <<>> =>
                    "EOpen" \in r.ops
              /\ "ESet" \in r.ops => key \in DOMAIN items']_vars

\* C29 as stated: the handler declines whenever the error file is missing
\* or unreadable.
C29_Original ==
    [][(Answered /\ StaticCalled(req'[1]) /\ ~ErrorFileReadable) =>
          req'[1].resp.by # "static"]_vars

\* the handler has answered from the cache while the error file is readable
\* on disk, and has not opened it
C29_Witness ==
    /\ Done(1)
    /\ StaticCalled(req[1])
    /\ req[1].resp.by = "static"
    /\ "ERead" \in req[1].ops
    /\ "EOpen" \notin req[1].ops
    /\ ErrorFileReadable

(***************************************************************************)
(* src/errors.go, ErrorPageTemplate.Build on its own: SpecBuild.  The      *)
(* template is the server's FallbackErrorContent, an exported field, put   *)
(* together from the two patterns, halves of them and plain text; Build    *)
(* is called as line 491 calls it, with codes that have a reason phrase    *)
(* and one that has none, and with either order of the map's iteration.    *)
(***************************************************************************)
MaxPieces == 3

TemplatePieces ==
    {PatternCode, PatternMessage,
     <<"{", "{", " ", "c", "o">>, <<"d", "e", " ", "}", "}">>,
     <<"{", "{", " ">>, <<"c", "o", "d", "e", " ", "}", "}">>,
     <<"x">>, <<"{">>}

RECURSIVE Templates(_)
Templates(n) ==
    IF n = 0 THEN {<<>>}
    ELSE Templates(n - 1)
         \cup {t \o p : t \in Templates(n - 1), p \in TemplatePieces}

BuildCodes == {StatusOK, StatusNotFound, StatusCustom}

InitBuild ==
    /\ sep = "/"
    /\ disk = InitialDisk
    /\ fsErr = ""
    /\ Settings = ZeroSettings
    /\ Cache = NilCache
    /\ ErrorHandlers = <<>>
    /\ FallbackErrorContent \in Templates(MaxPieces)
    /\ items = EmptyMap
    /\ readers = EmptyMap
    /\ allowedHTTPMethodsMap = [built |-> FALSE, keys |-> {}]
    /\ req = [i \in Slots |-> IdleReq]
    /\ served = EmptyMap

\* fs.handleError with no handler in the chain: line 491 writes
\* ErrorPageTemplate(fs.FallbackErrorContent).Build(errorCode)
BuildPage(errorCode, order) ==
    /\ Quiet
    /\ Apply(Fallback(World, 1, [IdleReq EXCEPT !.errorCode = errorCode], order))
    /\ UNCHANGED <<sep, fsErr, served>>

NextBuild ==
    \/ \E errorCode \in BuildCodes, order \in BuildOrders :
           BuildPage(errorCode, order)
    \/ Return(1)

SpecBuild == InitBuild /\ [][NextBuild]_vars

\* every occurrence of a pattern in t, found from left to right, replaced
\* at once, and nothing else touched
RECURSIVE Substitute(_, _)
Substitute(t, errorCode) ==
    IF t = <<>> THEN <<>>
    ELSE IF HasPrefix(t, PatternCode)
    THEN Itoa(errorCode)
         \o Substitute(SubSeq(t, Len(PatternCode) + 1, Len(t)), errorCode)
    ELSE IF HasPrefix(t, PatternMessage)
    THEN StatusText(errorCode)
         \o Substitute(SubSeq(t, Len(PatternMessage) + 1, Len(t)), errorCode)
    ELSE <<t[1]>> \o Substitute(Tail(t), errorCode)

\* C30: Build(errorCode) replaces every "{{ code }}" of the template by the
\* decimal code and every "{{ message }}" by the code's reason phrase,
\* leaves the other text as it is, and gives the same page in either order
\* of the two replacements.
C30_Build ==
    Done(1) =>
        LET t == FallbackErrorContent
            c == req[1].errorCode
        IN  /\ req[1].resp.body = Substitute(t, c)
            /\ Build(t, c, "code-first") = Build(t, c, "message-first")

\* the template "{{ co{{ message }}de }}" built for a code without reason
\* phrase, message first: the page is the code, though the template holds
\* no "{{ code }}"
C30_Witness ==
    /\ Done(1)
    /\ req[1].errorCode = StatusCustom
    /\ ~Contains(FallbackErrorContent, PatternCode)
    /\ req[1].resp.body = Itoa(StatusCustom)
    /\ Build(FallbackErrorContent, StatusCustom, "code-first") = PatternCode

\* the disk with the file of key k deleted, turned into a directory,
\* rewritten, or made impossible to open
OtherDisks(k) ==
    LET n == OSName(k, sep)
    IN  {[x \in (DOMAIN disk) \ {n} |-> disk[x]],
         (n :> Dir) @@ disk,
         (n :> File(<<"z">>, 9, "ok")) @@ disk,
         (n :> File(<<"z">>, 9, "noopen")) @@ disk}

\* the response the server would give to the request r were its disk d
ResponseOn(d, r) ==
    Run([Arrive(World, 1, r.Method, r.Path, r.Accept) EXCEPT !.disk = d],
        1, "code-first").req[1].resp

\* C31: on a cache hit ServeHTTP serves the cached content and the cached
\* modification time and makes no stat and no open: the response is the
\* same whatever has become of the file on the disk.
C31_HitIgnoresDisk ==
    [][(Answered /\ req'[1].resp.by = "cache") =>
          LET r == req'[1]
              k == r.filePath
          IN  /\ r.ops = {"Get"}
              /\ Get(items, k).found
              /\ r.resp.status = StatusOK
              /\ r.resp.body = readers[items[k].Content].data
              /\ r.resp.modtime = items[k].ModifiedTime
              /\ disk' = disk
              /\ \A d \in OtherDisks(k) : ResponseOn(d, r) = r.resp]_vars

\* the index file served from the cache with the content and the
\* modification time of its entry
C31_Witness ==
    /\ Done(1)
    /\ req[1].Path = <<"/">>
    /\ req[1].resp.by = "cache"
    /\ req[1].ops = {"Get"}
    /\ req[1].resp.body = <<"R">>
    /\ req[1].resp.modtime = 3
    /\ items[req[1].filePath].age > 0

\* the response a server with the same settings but caching disabled, and
\* hence no cache, gives to the request r on the same disk
ResponseUncached(r) ==
    Run([Arrive(World, 1, r.Method, r.Path, r.Accept)
            EXCEPT !.Settings.CacheEnabled = FALSE, !.Cache = NilCache,
                   !.items = EmptyMap, !.readers = EmptyMap],
        1, "code-first").req[1].resp

\* C32: while the files are as they were when the server was built, every
\* response of a server with caching enabled has the status and the body
\* that the server with caching disabled answers to the same request.
C32_CacheTransparent ==
    [][(Answered /\ Settings.CacheEnabled /\ disk = InitialDisk) =>
          LET r == req'[1]
              u == ResponseUncached(r)
          IN  /\ r.resp.status = u.status
              /\ r.resp.body = u.body]_vars

\* on an unchanged disk the caching server answers a missing file with an
\* empty page where the server without cache writes the error page
C32_Witness ==
    /\ Done(1)
    /\ Settings.CacheEnabled
    /\ disk = InitialDisk
    /\ req[1].resp.status = StatusNotFound
    /\ req[1].resp.body = <<>>
    /\ ResponseUncached(req[1]).status = StatusNotFound
    /\ ResponseUncached(req[1]).body = Build(ErrorPage, StatusNotFound, "code-first")

\* C33: every cache entry has the modification time of the file it was
\* read from, so that a hit serves the modification time a read of the
\* unchanged file from disk would serve, whether ServeHTTP or the error-page
\* handler made the entry.
C33_EntryModTime ==
    /\ \A k \in DOMAIN items :
           LET info == Stat(disk, k, sep)
           IN  info.kind = "file" => items[k].ModifiedTime = info.mtime
    /\ (Done(1) /\ req[1].resp.by = "cache") =>
           LET info == Stat(disk, req[1].filePath, sep)
           IN  info.kind = "file" => req[1].resp.modtime = info.mtime

\* the error file, asked for as content, is served from the entry the
\* error-page handler made, with the time of that entry's making
C33_Witness ==
    /\ Done(1)
    /\ req[1].Path = <<"/", "e">>
    /\ req[1].resp.by = "cache"
    /\ req[1].resp.status = StatusOK
    /\ req[1].resp.modtime = TimeNow
    /\ Stat(disk, req[1].filePath, sep).kind = "file"
    /\ Stat(disk, req[1].filePath, sep).mtime = 5

OtherHost(location) == HasHost(location)

\* C35: there is no redirect loop: the Location of every 301 ends in "/"
\* and is a path of this server, a request for it is not answered 301
\* again, and it resolves to the file path the original request path
\* resolves to when it is not redirected.
C35_NoRedirectLoop ==
    (Done(1) /\ req[1].resp.status = StatusMovedPermanently) =>
        LET target == req[1].resp.location
            p == req[1].Path
        IN  /\ EndsInSlash(target)
            /\ ~IsIndexRedirect(Settings, target)
            /\ ~OtherHost(target)
            /\ FilePath(Settings, target, sep) = FilePath(Settings, p, sep)

\* GET //i/i is answered with the Location //i/, the root of the host i
C35_Witness ==
    /\ Done(1)
    /\ req[1].resp.status = StatusMovedPermanently
    /\ req[1].Path = <<"/", "/", "i", "/", "i">>
    /\ req[1].resp.location = <<"/", "/", "i", "/">>
    /\ OtherHost(req[1].resp.location)

(***************************************************************************)
(* src/fileserver.go, methodIsAllowed, with Settings.AllowedHTTPMethods    *)
(* changed at runtime ("some of them can be changed in runtime", line      *)
(* 380): SpecMethods.                                                      *)
(***************************************************************************)
MethodLists ==
    {<<>>, <<"GET">>, <<"POST">>, <<"GET", "POST">>, <<"DELETE">>}

MethodRequests ==
    {Request(mt, p, <<>>) : mt \in {"GET", "POST", "DELETE"},
                            p \in {<<"/", "a">>, <<"/", "x">>}}

InitMethods == InitServer(BaseSettings, "/")

\* fs.Settings.AllowedHTTPMethods = list, between two requests
SetAllowedHTTPMethods(list) ==
    /\ Quiet
    /\ fsErr = ""
    /\ Settings.AllowedHTTPMethods # list
    /\ Settings' = [Settings EXCEPT !.AllowedHTTPMethods = list]
    /\ UNCHANGED <<sep, disk, fsErr, Cache, items, readers,
                   allowedHTTPMethodsMap, ErrorHandlers, FallbackErrorContent,
                   req, served>>

NextMethods ==
    \/ \E list \in MethodLists : SetAllowedHTTPMethods(list)
    \/ \E q \in MethodRequests, order \in BuildOrders : ServeHTTP(q, order)
    \/ Return(1)

SpecMethods == InitMethods /\ [][NextMethods]_vars

\* C36: the set of accepted methods is fixed by the first request: the map
\* is built once, from Settings.AllowedHTTPMethods as it is at the first
\* method check, no later step changes it, and every request is accepted or
\* answered 405 by that map, whatever Settings.AllowedHTTPMethods holds by
\* then.
C36_MethodsFixed ==
    [][/\ allowedHTTPMethodsMap.built =>
              allowedHTTPMethodsMap' = allowedHTTPMethodsMap
       /\ (Answered /\ ~allowedHTTPMethodsMap.built) =>
              LET list == Settings.AllowedHTTPMethods
              IN  allowedHTTPMethodsMap' =
                      [built |-> TRUE, keys |-> {list[j] : j \in DOMAIN list}]
       /\ ~Answered => allowedHTTPMethodsMap' = allowedHTTPMethodsMap
       /\ Answered =>
              LET r == req'[1]
                  accepted == r.Method \in allowedHTTPMethodsMap'.keys
              IN  /\ accepted <=> r.errorCode # StatusMethodNotAllowed
                  /\ accepted <=> r.resp.status # StatusMethodNotAllowed
                  /\ ~accepted => r.ops = {}]_vars

\* POST is rejected although Settings.AllowedHTTPMethods, changed since the
\* first request, allows it
C36_Witness ==
    /\ Done(1)
    /\ req[1].Method = "POST"
    /\ req[1].resp.status = StatusMethodNotAllowed
    /\ Settings.AllowedHTTPMethods = <<"POST">>
    /\ allowedHTTPMethodsMap = [built |-> TRUE, keys |-> {"DELETE"}]

(***************************************************************************)
(* src/fileserver.go, CacheAvailable, with Settings.CacheEnabled and       *)
(* Cache changed at runtime: SpecSwitch.  The server is built with or      *)
(* without cache; between requests the caller switches CacheEnabled or     *)
(* sets Cache to nil.                                                      *)
(***************************************************************************)
SwitchInputs == {CachedInput, [CachedInput EXCEPT !.CacheEnabled = FALSE]}

SwitchRequests ==
    {Request("GET", p, <<>>) :
        p \in {<<"/">>, <<"/", "a">>, <<"/", "b">>, <<"/", "x">>, <<"/", "e">>}}
    \cup {Request("DELETE", <<"/", "a">>, <<>>)}

InitSwitch == \E s \in SwitchInputs : InitServer(s, "/")

\* fs.Settings.CacheEnabled = b, between two requests
SetCacheEnabled(b) ==
    /\ Quiet
    /\ fsErr = ""
    /\ Settings.CacheEnabled # b
    /\ Settings' = [Settings EXCEPT !.CacheEnabled = b]
    /\ UNCHANGED <<sep, disk, fsErr, Cache, items, readers,
                   allowedHTTPMethodsMap, ErrorHandlers, FallbackErrorContent,
                   req, served>>

\* fs.Cache = nil, between two requests: the entries go with the cache
SetCacheNil ==
    /\ Quiet
    /\ fsErr = ""
    /\ ~Cache.nil
    /\ Cache' = NilCache
    /\ items' = EmptyMap
    /\ readers' = EmptyMap
    /\ UNCHANGED <<sep, disk, fsErr, Settings, allowedHTTPMethodsMap,
                   ErrorHandlers, FallbackErrorContent, req, served>>

NextSwitch ==
    \/ \E b \in BOOLEAN : SetCacheEnabled(b)
    \/ SetCacheNil
    \/ \E q \in SwitchRequests, order \in BuildOrders : ServeHTTP(q, order)
    \/ Return(1)
    \/ Tick

SpecSwitch == InitSwitch /\ [][NextSwitch]_vars

\* the calls of the Cacher interface a request makes
CacheOps == {"Get", "Set", "Count", "EGet", "ERead", "ECount", "ESet"}

\* C37: no cache operation is made on a missing cache: a request served
\* while CacheEnabled is false or Cache is nil makes no Get, Set or Count,
\* in ServeHTTP and in the error handlers, leaves the entries as they are
\* and is answered from the disk.
C37_NoCacheNoOps ==
    [][(Answered /\ (~Settings.CacheEnabled \/ Cache.nil)) =>
          LET r == req'[1]
              info == Stat(disk, r.filePath, sep)
          IN  /\ r.ops \cap CacheOps = {}
              /\ items' = items
              /\ readers' = readers
              /\ r.resp.by \notin {"cache", "buffer"}
              /\ (r.resp.status = StatusOK) =>
                     /\ {"Stat", "Open"} \subseteq r.ops
                     /\ r.resp.by = "file"
                     /\ r.resp.body = info.data
                     /\ r.resp.modtime = info.mtime
              /\ r.resp.by = "static" =>
                     /\ "EOpen" \in r.ops
                     /\ r.resp.body \in Pages(ErrorPage, r.errorCode)]_vars

\* with CacheEnabled switched off the file is served from the disk although
\* the cache still holds its entry
C37_Witness ==
    /\ Done(1)
    /\ ~Settings.CacheEnabled
    /\ ~Cache.nil
    /\ req[1].filePath \in DOMAIN items
    /\ Get(items, req[1].filePath).found
    /\ req[1].resp.by = "file"
    /\ req[1].ops \cap CacheOps = {}

\* C38: with the default chain exactly one response is written per request:
\* the handler returns after the method rejection, the redirect, the cache
\* hit, the disk serve and the error handling, a default error handler that
\* declines has written nothing, and the status is written once, by the
\* component that accepted the request.
C38_OneResponse ==
    [][(Answered /\ ErrorHandlers = DefaultErrorHandlers) =>
          LET r == req'[1]
              json == <<"JSONErrorHandler">>
          IN  /\ r.pc = "done"
              /\ r.resp.status # 0
              /\ r.written = <<r.resp.by>>
              /\ r.errorCode = 0 =>
                     /\ r.resp.by \in {"redirect", "cache", "buffer", "file"}
                     /\ r.ran = <<>>
                     /\ r.resp.by = "redirect" <=> r.ops = {"Redirect"}
                     /\ r.resp.by = "redirect" <=>
                            r.resp.status = StatusMovedPermanently
                     /\ r.resp.by # "redirect" => r.resp.status = StatusOK
              /\ r.errorCode # 0 =>
                     /\ r.resp.status = r.errorCode
                     /\ r.resp.by \in {"json", "static", "fallback"}
                     /\ r.resp.by = "json" <=> WantsJSON(r.Accept)
                     /\ r.resp.by = "json" => r.ran = json
                     /\ r.resp.by # "json" => r.ran = DefaultErrorHandlers
                     /\ r.resp.by = "fallback" =>
                            r.ops \cap {"ERead", "ESet"} = {}
              /\ r.errorCode = StatusMethodNotAllowed => r.ops \subseteq CacheOps \cup {"EOpen"}
              /\ "Redirect" \in r.ops => r.ops = {"Redirect"}]_vars

\* both default handlers have declined a 404 and the fallback alone has
\* written the response
C38_Witness ==
    /\ Done(1)
    /\ ErrorHandlers = DefaultErrorHandlers
    /\ req[1].errorCode = StatusNotFound
    /\ req[1].ran = DefaultErrorHandlers
    /\ req[1].written = <<"fallback">>
    /\ req[1].resp.status = StatusNotFound
    /\ Settings.ErrorFileName # <<>>

=============================================================================
